---- MODULE Spec2Model ----
(***************************************************************************)
(* Model of the money-management request handlers: the balance ledger      *)
(* (transaction create / update / delete against bank accounts), the       *)
(* account handlers and the budget handlers, over the relational store.    *)
(* Amounts are integers (minor units).                                     *)
(***************************************************************************)
EXTENDS Integers, Sequences, FiniteSets, TLC

\* ------------------------------------------------------------------ bounds
MaxTxns == 2
MaxAmount == 2
MaxDate == 1
MaxAccountOps == 1
MaxBudgets == 2
MaxBudgetDate == 3
MaxProcs == 2
MaxRequests == 3
MaxCategories == 4

\* ------------------------------------------------------- the stored world
Users == {1, 2}
OpeningBalance == 10

AccountIds == {1, 2, 3}
TxnIds == 1..MaxTxns
SeededCategoryIds == {1, 2, 3}
CategoryIds == 1..MaxCategories
BudgetIds == 1..MaxBudgets
Procs == 1..MaxProcs

TxnTypes == {"INCOME", "EXPENSE", "TRANSFER"}

\* the "no such row" result of findFirst, and an empty table cell
NoRow == [userId |-> 0]

\* ------------------------------------------------------------- users
MaxUsers == 4
MaxClock == 48
ClockStep == 12
UserIds == 1..MaxUsers
Emails == {"one@x", "two@x", "new@x", "other@x"}

\* null in emailVerificationToken / emailVerificationExpires
NoToken == 0
NoExpiry == -1
NoUser == [email |-> ""]

\* the users the stored accounts and categories belong to: verified long ago
SeededUser(i) ==
  [email |-> IF i = 1 THEN "one@x" ELSE "two@x", isEmailVerified |-> TRUE,
   emailVerificationToken |-> NoToken, emailVerificationExpires |-> NoExpiry,
   createdAt |-> 0]

VARIABLES
  accounts,      \* bank_accounts: id -> row or NoRow
  opening,       \* ghost: the balance each account was created with
  categories,    \* categories: id -> row or NoRow
  nextCategoryId,
  transactions,  \* transactions: id -> row or NoRow
  nextTxnId,     \* ids handed out so far + 1 (ids are never reused)
  accountOps,    \* successful account requests so far (bounds the run)
  budgets,       \* budgets: id -> row or NoRow
  nextBudgetId,
  inflight,      \* concurrent requests: process -> its request and position
  requests,      \* concurrent requests started so far (bounds the run)
  users,         \* users: id -> row or NoUser
  nextUserId,
  registered,    \* the category rows createMany wrote at registration, per user
  clock,         \* new Date(), in hours
  last           \* the response just produced (op, caller, status, error, id)

vars == <<accounts, opening, categories, nextCategoryId, transactions, nextTxnId,
          accountOps, budgets, nextBudgetId, inflight, requests, users, nextUserId,
          registered, clock, last>>

accountVars == <<accountOps>>
categoryVars == <<categories, nextCategoryId>>
budgetVars == <<budgets, nextBudgetId>>
concVars == <<inflight, requests>>
authVars == <<users, nextUserId, registered, clock>>

Idle == [op |-> "none"]

\* a process with no request in hand
Parked == [pc |-> "idle"]

\* ------------------------------------------------------------- db helpers
\* prisma.<table>.findFirst({ where: { id, userId } })
FindFirstAnyOwner(table, ids, id, userId) ==
  IF id \in ids /\ table[id] # NoRow THEN table[id] ELSE NoRow
FindFirst(table, ids, id, userId) ==
  IF id \in ids /\ table[id] # NoRow /\ table[id].userId = userId
    THEN table[id] ELSE NoRow

RECURSIVE SumOver(_, _)
SumOver(S, f) ==
  IF S = {} THEN 0
  ELSE LET x == CHOOSE y \in S : TRUE IN f[x] + SumOver(S \ {x}, f)

\* the store the atomic unit works on
Db == [accounts |-> accounts, transactions |-> transactions]

\* tx.bankAccount.update({ where: { id }, data: { balance: { increment } } })
Increment(db, id, delta) ==
  [db EXCEPT !.accounts[id].balance = @ + delta]

\* prisma.$transaction(async (tx) => ...): a throw inside the callback rolls
\* every statement of the unit back
RollbackLeak(before, partial) == partial
Rollback(before, partial) == before

\* ------------------------------------------------- transaction arguments
\* amount 0 stands for a request with a required field missing
Amounts == -1..MaxAmount
TypeInputs == TxnTypes \cup {"BOGUS"}
AccountRefs == AccountIds \cup {4}
CategoryRefs == CategoryIds
DateInputs == 1..MaxDate

TxnInputs ==
  [amount : Amounts, type : TypeInputs, accountId : AccountRefs,
   categoryId : CategoryRefs, date : DateInputs]

\* balanceChange (POST) / newBalanceChange (PUT)
BalanceChangeIncomeOnly(type, amount) == IF type = "INCOME" THEN amount ELSE 0
BalanceChange(type, amount) == IF type = "INCOME" THEN amount ELSE -amount

\* oldBalanceChange (PUT) and balanceChange (DELETE): the reversal
ReverseChangeNoSign(existing) == existing.amount
ReverseChange(existing) ==
  IF existing.type = "INCOME" THEN -existing.amount ELSE existing.amount

Reject(status, error) == [status |-> status, error |-> error]
Pass == Reject(0, "")

\* the validation shared by POST and PUT (required fields, type, amount,
\* ownership of account and category, category direction)
ValidateNoDirection(u, d) ==
  IF d.amount = 0 THEN Reject(400, "Missing required fields")
  ELSE IF d.type \notin TxnTypes THEN Reject(400, "Invalid transaction type")
  ELSE IF d.amount <= 0 THEN Reject(400, "Amount must be positive")
  ELSE IF FindFirst(accounts, AccountIds, d.accountId, u) = NoRow
    THEN Reject(404, "Account not found")
  ELSE IF FindFirst(categories, CategoryIds, d.categoryId, u) = NoRow
    THEN Reject(404, "Category not found")
  ELSE Pass
ValidateNoAmount(u, d) ==
  IF d.type \notin TxnTypes THEN Reject(400, "Invalid transaction type")
  ELSE IF FindFirst(accounts, AccountIds, d.accountId, u) = NoRow
    THEN Reject(404, "Account not found")
  ELSE IF FindFirst(categories, CategoryIds, d.categoryId, u) = NoRow
    THEN Reject(404, "Category not found")
  ELSE IF \/ d.type = "INCOME" /\ categories[d.categoryId].type # "INCOME"
          \/ d.type = "EXPENSE" /\ categories[d.categoryId].type # "EXPENSE"
    THEN Reject(400, "Category type does not match transaction type")
  ELSE Pass
Validate(u, d) ==
  IF d.amount = 0 THEN Reject(400, "Missing required fields")
  ELSE IF d.type \notin TxnTypes THEN Reject(400, "Invalid transaction type")
  ELSE IF d.amount <= 0 THEN Reject(400, "Amount must be positive")
  ELSE IF FindFirst(accounts, AccountIds, d.accountId, u) = NoRow
    THEN Reject(404, "Account not found")
  ELSE IF FindFirst(categories, CategoryIds, d.categoryId, u) = NoRow
    THEN Reject(404, "Category not found")
  ELSE IF \/ d.type = "INCOME" /\ categories[d.categoryId].type # "INCOME"
          \/ d.type = "EXPENSE" /\ categories[d.categoryId].type # "EXPENSE"
    THEN Reject(400, "Category type does not match transaction type")
  ELSE Pass

NewRow(u, d) ==
  [userId |-> u, amount |-> d.amount, type |-> d.type,
   accountId |-> d.accountId, categoryId |-> d.categoryId, date |-> d.date]

\* what a handler hands back: the response and the store it leaves
Result(status, error, id, db) ==
  [status |-> status, error |-> error, id |-> id, db |-> db]

InternalError == "Internal server error"

\* -------------------------------------------------- POST /api/transactions
\* the statements of the atomic unit, the first k of them applied
PostStmts(db, u, d, id, k) ==
  LET s1 == [db EXCEPT !.transactions[id] = NewRow(u, d)]
      s2 == Increment(s1, d.accountId, BalanceChange(d.type, d.amount))
  IN  IF k = 0 THEN db ELSE IF k = 1 THEN s1 ELSE s2

\* the atomic unit of POST; failAt = k > 0: statement k throws
PostUnit(db, u, d, id, failAt) ==
  IF failAt # 0
    THEN Result(500, InternalError, 0, Rollback(db, PostStmts(db, u, d, id, failAt - 1)))
    ELSE Result(201, "", id, PostStmts(db, u, d, id, 2))

POST(u, d, failAt) ==
  LET v == Validate(u, d)
  IN  IF v # Pass THEN Result(v.status, v.error, 0, Db)
      ELSE PostUnit(Db, u, d, nextTxnId, failAt)

\* --------------------------------------------- PUT /api/transactions/[id]
PutStmts(db, existing, id, d, k) ==
  LET s1 == Increment(db, existing.accountId, ReverseChange(existing))
      s2 == [s1 EXCEPT !.transactions[id] =
               [@ EXCEPT !.amount = d.amount, !.type = d.type, !.date = d.date,
                         !.accountId = d.accountId, !.categoryId = d.categoryId]]
      s3 == Increment(s2, d.accountId, BalanceChange(d.type, d.amount))
  IN  IF k = 0 THEN db ELSE IF k = 1 THEN s1 ELSE IF k = 2 THEN s2 ELSE s3

\* statement 2 (tx.transaction.update) throws when the row is gone
PutUnit(db, existing, id, d, failAt) ==
  LET f == IF failAt # 0 THEN failAt
           ELSE IF db.transactions[id] = NoRow THEN 2 ELSE 0
  IN  IF f # 0
        THEN Result(500, InternalError, 0, Rollback(db, PutStmts(db, existing, id, d, f - 1)))
        ELSE Result(200, "", id, PutStmts(db, existing, id, d, 3))

PUT(u, id, d, failAt) ==
  LET existing == FindFirst(transactions, TxnIds, id, u)
      v == Validate(u, d)
  IN  IF existing = NoRow THEN Result(404, "Transaction not found", 0, Db)
      ELSE IF v # Pass THEN Result(v.status, v.error, 0, Db)
      ELSE PutUnit(Db, existing, id, d, failAt)

\* ------------------------------------------ DELETE /api/transactions/[id]
DeleteStmtsNoReversal(db, existing, id, k) ==
  IF k = 2 THEN [db EXCEPT !.transactions[id] = NoRow] ELSE db
DeleteStmts(db, existing, id, k) ==
  LET s1 == Increment(db, existing.accountId, ReverseChange(existing))
      s2 == [s1 EXCEPT !.transactions[id] = NoRow]
  IN  IF k = 0 THEN db ELSE IF k = 1 THEN s1 ELSE s2

\* statement 2 (tx.transaction.delete) throws when the row is gone
DeleteUnit(db, existing, id, failAt) ==
  LET f == IF failAt # 0 THEN failAt
           ELSE IF db.transactions[id] = NoRow THEN 2 ELSE 0
  IN  IF f # 0
        THEN Result(500, InternalError, 0, Rollback(db, DeleteStmts(db, existing, id, f - 1)))
        ELSE Result(200, "", id, DeleteStmts(db, existing, id, 2))

DELETE(u, id, failAt) ==
  LET existing == FindFirst(transactions, TxnIds, id, u)
  IN  IF existing = NoRow THEN Result(404, "Transaction not found", 0, Db)
      ELSE DeleteUnit(Db, existing, id, failAt)

\* ------------------------------------------------------ /api/accounts
\* GET /api/accounts: the caller's active accounts
AccountList(acc, u) == {a \in AccountIds : acc[a].userId = u /\ acc[a].isActive}

BalanceInputs == {OpeningBalance}

CountTransactions(id) ==
  Cardinality({t \in TxnIds : transactions[t] # NoRow /\ transactions[t].accountId = id})

\* PUT /api/accounts/[id]; wf: name and type are given and valid;
\* hasBalance: the body carries a balance
AccountPut(u, id, wf, hasBalance, balance) ==
  IF ~wf THEN Result(400, "Name and type are required", 0, Db)
  ELSE IF FindFirst(accounts, AccountIds, id, u) = NoRow
    THEN Result(404, "Account not found", 0, Db)
  ELSE Result(200, "", id,
         [Db EXCEPT !.accounts[id].balance = IF hasBalance THEN balance ELSE @])

\* DELETE /api/accounts/[id]: soft delete, refused while transactions exist
AccountDel(u, id) ==
  IF FindFirst(accounts, AccountIds, id, u) = NoRow
    THEN Result(404, "Account not found", 0, Db)
  ELSE IF CountTransactions(id) > 0
    THEN Result(400, "Cannot delete account with existing transactions", 0, Db)
  ELSE Result(200, "", id, [Db EXCEPT !.accounts[id].isActive = FALSE])

\* ------------------------------------------------------ the handler steps
Answer(op, u, r) ==
  [op |-> op, userId |-> u, status |-> r.status, error |-> r.error, id |-> r.id]

Store(db) ==
  /\ accounts' = db.accounts
  /\ transactions' = db.transactions

TxnCreate(u, d, failAt) ==
  /\ last = Idle
  /\ nextTxnId <= MaxTxns
  /\ LET r == POST(u, d, failAt)
     IN  /\ Store(r.db)
         /\ nextTxnId' = IF r.status = 201 THEN nextTxnId + 1 ELSE nextTxnId
         /\ last' = Answer("txnCreate", u, r)
  /\ UNCHANGED <<opening, authVars, categoryVars, accountVars, budgetVars, concVars>>

TxnUpdate(u, id, d, failAt) ==
  /\ last = Idle
  /\ LET r == PUT(u, id, d, failAt)
     IN  /\ Store(r.db)
         /\ last' = Answer("txnUpdate", u, r)
  /\ UNCHANGED <<opening, authVars, categoryVars, nextTxnId, accountVars, budgetVars, concVars>>

TxnDelete(u, id, failAt) ==
  /\ last = Idle
  /\ LET r == DELETE(u, id, failAt)
     IN  /\ Store(r.db)
         /\ last' = Answer("txnDelete", u, r)
  /\ UNCHANGED <<opening, authVars, categoryVars, nextTxnId, accountVars, budgetVars, concVars>>

AccountUpdate(u, id, wf, hasBalance, balance) ==
  /\ last = Idle
  /\ accountOps < MaxAccountOps
  /\ LET r == AccountPut(u, id, wf, hasBalance, balance)
     IN  /\ Store(r.db)
         /\ accountOps' = IF r.status = 200 THEN accountOps + 1 ELSE accountOps
         /\ last' = Answer("accountUpdate", u, r)
  /\ UNCHANGED <<opening, authVars, categoryVars, nextTxnId, budgetVars, concVars>>

AccountDelete(u, id) ==
  /\ last = Idle
  /\ accountOps < MaxAccountOps
  /\ LET r == AccountDel(u, id)
     IN  /\ Store(r.db)
         /\ accountOps' = IF r.status = 200 THEN accountOps + 1 ELSE accountOps
         /\ last' = Answer("accountDelete", u, r)
  /\ UNCHANGED <<opening, authVars, categoryVars, nextTxnId, budgetVars, concVars>>

\* the response has been delivered
Respond ==
  /\ last # Idle
  /\ last' = Idle
  /\ UNCHANGED <<accounts, opening, authVars, categoryVars, transactions, nextTxnId, accountVars,
                 budgetVars, concVars>>

\* the categories createMany writes for a new user: user 1 gets "Salary"
\* (INCOME) and "Food" (EXPENSE), user 2 gets "Food" (EXPENSE)
SeededCategory(c) ==
  [userId |-> IF c = 3 THEN 2 ELSE 1,
   name |-> IF c = 1 THEN "Salary" ELSE "Food",
   type |-> IF c = 1 THEN "INCOME" ELSE "EXPENSE", isDefault |-> TRUE]

Init ==
  /\ accounts = [a \in AccountIds |->
       [userId |-> IF a = 3 THEN 2 ELSE 1, balance |-> OpeningBalance, isActive |-> TRUE]]
  /\ opening = [a \in AccountIds |-> OpeningBalance]
  /\ categories = [c \in CategoryIds |->
       IF c \in SeededCategoryIds THEN SeededCategory(c) ELSE NoRow]
  /\ nextCategoryId = 4
  /\ transactions = [t \in TxnIds |-> NoRow]
  /\ nextTxnId = 1
  /\ accountOps = 0
  /\ budgets = [b \in BudgetIds |-> NoRow]
  /\ nextBudgetId = 1
  /\ inflight = [p \in Procs |-> Parked]
  /\ requests = 0
  /\ users = [i \in UserIds |-> IF i \in Users THEN SeededUser(i) ELSE NoUser]
  /\ nextUserId = 3
  /\ registered = [i \in UserIds |-> {}]
  /\ clock = 0
  /\ last = Idle

\* which statement of an atomic unit of n statements throws (0: none); a
\* request that never reaches its unit has no statement to fail
FailPoints(reachesUnit, n) == IF reachesUnit THEN 0..n ELSE {0}

\* the bodies worth sending to PUT: a request answered 404 before its body is
\* looked at needs one body only
BodiesFor(u, id) ==
  IF FindFirst(transactions, TxnIds, id, u) = NoRow
    THEN {CHOOSE d \in TxnInputs : TRUE} ELSE TxnInputs

PostTransaction ==
  /\ last = Idle
  /\ \E u \in Users, d \in TxnInputs :
       \E f \in FailPoints(Validate(u, d) = Pass, 2) : TxnCreate(u, d, f)

PutTransaction ==
  /\ last = Idle
  /\ \E u \in Users, id \in TxnIds : \E d \in BodiesFor(u, id) :
       \E f \in FailPoints(Validate(u, d) = Pass, 3) : TxnUpdate(u, id, d, f)

DeleteTransaction ==
  /\ last = Idle
  /\ \E u \in Users, id \in TxnIds :
       \E f \in FailPoints(TRUE, 2) : TxnDelete(u, id, f)

PutAccount ==
  /\ last = Idle
  /\ \E u \in Users, id \in AccountRefs, wf \in BOOLEAN, hb \in BOOLEAN, b \in BalanceInputs :
       AccountUpdate(u, id, wf, hb, b)

DeleteAccount ==
  /\ last = Idle
  /\ \E u \in Users, id \in AccountRefs : AccountDelete(u, id)

\* the ledger: requests handled one at a time
Next ==
  \/ PostTransaction
  \/ PutTransaction
  \/ DeleteTransaction
  \/ Respond

Spec == Init /\ [][Next]_vars

\* PUT /api/transactions/[id] with the amount, type and account the stored
\* transaction already has (date and category are free)
KeepTransaction ==
  /\ last = Idle
  /\ \E u \in Users, id \in TxnIds :
       /\ FindFirst(transactions, TxnIds, id, u) # NoRow
       /\ \E d \in TxnInputs :
            /\ d.amount = transactions[id].amount
            /\ d.type = transactions[id].type
            /\ d.accountId = transactions[id].accountId
            /\ \E f \in FailPoints(Validate(u, d) = Pass, 3) : TxnUpdate(u, id, d, f)

\* the ledger with such updates only
NextKeep ==
  \/ PostTransaction
  \/ KeepTransaction
  \/ DeleteTransaction
  \/ Respond

SpecKeep == Init /\ [][NextKeep]_vars

\* the ledger together with the account handlers
NextAccounts ==
  \/ PutAccount
  \/ DeleteAccount
  \/ PostTransaction
  \/ PutTransaction
  \/ DeleteTransaction
  \/ Respond

SpecAccounts == Init /\ [][NextAccounts]_vars

\* --------------------------------------------------- concurrent requests
\* Two clients of user 1 send transaction requests that overlap in time. A
\* handler is cut where it awaits: the read of the existing transaction, the
\* reads of account and category, and the atomic unit, which the database runs
\* as one step.
Clients == {1}

ConcInputs ==
  {d \in TxnInputs : /\ d.amount > 0
                     /\ d.type \in {"INCOME", "EXPENSE"}
                     /\ d.accountId \in {1, 2}
                     /\ d.categoryId \in {1, 2}}

InFlight(pc, op, u, id, d, existing) ==
  [pc |-> pc, op |-> op, userId |-> u, id |-> id, d |-> d, existing |-> existing]

\* creates that have passed validation and not yet run their unit
PendingCreates ==
  Cardinality({p \in Procs : inflight[p] # Parked /\ inflight[p].op = "POST"})

\* POST: validation, then the unit
ConcPostValidate(p, u, d) ==
  /\ inflight[p] = Parked
  /\ requests < MaxRequests
  /\ nextTxnId + PendingCreates <= MaxTxns
  /\ requests' = requests + 1
  /\ inflight' = [inflight EXCEPT ![p] =
       IF Validate(u, d) = Pass THEN InFlight("unit", "POST", u, 0, d, NoRow) ELSE Parked]
  /\ UNCHANGED <<accounts, opening, authVars, categoryVars, transactions, nextTxnId, accountVars,
                 budgetVars, last>>

\* PUT: the read of the existing transaction
ConcPutRead(p, u, id, d) ==
  /\ inflight[p] = Parked
  /\ requests < MaxRequests
  /\ requests' = requests + 1
  /\ LET existing == FindFirst(transactions, TxnIds, id, u)
     IN  inflight' = [inflight EXCEPT ![p] =
           IF existing = NoRow THEN Parked
           ELSE InFlight("validate", "PUT", u, id, d, existing)]
  /\ UNCHANGED <<accounts, opening, authVars, categoryVars, transactions, nextTxnId, accountVars,
                 budgetVars, last>>

\* PUT: field validation and the reads of account and category
ConcPutValidate(p) ==
  /\ inflight[p] # Parked
  /\ inflight[p].pc = "validate"
  /\ inflight' = [inflight EXCEPT ![p] =
       IF Validate(inflight[p].userId, inflight[p].d) = Pass
         THEN [@ EXCEPT !.pc = "unit"] ELSE Parked]
  /\ UNCHANGED <<accounts, opening, authVars, categoryVars, transactions, nextTxnId, accountVars,
                 budgetVars, requests, last>>

\* DELETE: the read of the existing transaction
ConcDeleteRead(p, u, id) ==
  /\ inflight[p] = Parked
  /\ requests < MaxRequests
  /\ requests' = requests + 1
  /\ LET existing == FindFirst(transactions, TxnIds, id, u)
     IN  inflight' = [inflight EXCEPT ![p] =
           IF existing = NoRow THEN Parked
           ELSE InFlight("unit", "DELETE", u, id, existing, existing)]
  /\ UNCHANGED <<accounts, opening, authVars, categoryVars, transactions, nextTxnId, accountVars,
                 budgetVars, last>>

\* the atomic unit of the request process p holds, on the store as it is now
ConcUnit(p) ==
  /\ inflight[p] # Parked
  /\ inflight[p].pc = "unit"
  /\ LET q == inflight[p]
         r == IF q.op = "POST" THEN PostUnit(Db, q.userId, q.d, nextTxnId, 0)
              ELSE IF q.op = "PUT" THEN PutUnit(Db, q.existing, q.id, q.d, 0)
              ELSE DeleteUnit(Db, q.existing, q.id, 0)
     IN  /\ Store(r.db)
         /\ nextTxnId' = IF r.status = 201 THEN nextTxnId + 1 ELSE nextTxnId
  /\ inflight' = [inflight EXCEPT ![p] = Parked]
  /\ UNCHANGED <<opening, authVars, categoryVars, accountVars, budgetVars, requests, last>>

BeginPost == \E p \in Procs, u \in Clients, d \in ConcInputs : ConcPostValidate(p, u, d)
BeginPut ==
  \E p \in Procs, u \in Clients, id \in TxnIds, d \in ConcInputs : ConcPutRead(p, u, id, d)
ValidatePut == \E p \in Procs : ConcPutValidate(p)
BeginDelete == \E p \in Procs, u \in Clients, id \in TxnIds : ConcDeleteRead(p, u, id)
RunUnit == \E p \in Procs : ConcUnit(p)

NextConc ==
  \/ BeginPost
  \/ BeginPut
  \/ ValidatePut
  \/ BeginDelete
  \/ RunUnit

SpecConc == Init /\ [][NextConc]_vars

\* ------------------------------------- the unit, statement by statement
\* The same requests with the callback of prisma.$transaction cut at each
\* await: a statement issued through tx stays inside the database transaction
\* until the callback returns, and a throw rolls the statements back. A reader
\* is one query on the store.
StmtCount(op) == IF op = "PUT" THEN 3 ELSE 2

Executed(pc) ==
  IF pc = "s1" THEN 1 ELSE IF pc = "s2" THEN 2 ELSE IF pc = "s3" THEN 3 ELSE 0

PcAfter(k) == IF k = 1 THEN "s1" ELSE IF k = 2 THEN "s2" ELSE "s3"

InUnit(p) ==
  inflight[p] # Parked /\ inflight[p].pc \in {"unit", "s1", "s2", "s3"}

\* the unit of process p on the store as it is now; failAt as in the handlers
UnitOf(p, failAt) ==
  LET q == inflight[p]
  IN  IF q.op = "POST" THEN PostUnit(Db, q.userId, q.d, nextTxnId, failAt)
      ELSE IF q.op = "PUT" THEN PutUnit(Db, q.existing, q.id, q.d, failAt)
      ELSE DeleteUnit(Db, q.existing, q.id, failAt)

\* the next statement of the callback runs inside the database transaction
TxStatement(p) ==
  /\ InUnit(p)
  /\ Executed(inflight[p].pc) < StmtCount(inflight[p].op)
  /\ inflight' = [inflight EXCEPT ![p].pc = PcAfter(Executed(inflight[p].pc) + 1)]
  /\ UNCHANGED <<accounts, opening, authVars, categoryVars, transactions, nextTxnId,
                 accountVars, budgetVars, requests, last>>

\* the next statement throws: the callback rejects and the unit is rolled back
TxThrow(p) ==
  /\ InUnit(p)
  /\ Executed(inflight[p].pc) < StmtCount(inflight[p].op)
  /\ Store(UnitOf(p, Executed(inflight[p].pc) + 1).db)
  /\ inflight' = [inflight EXCEPT ![p] = Parked]
  /\ UNCHANGED <<opening, authVars, categoryVars, nextTxnId, accountVars, budgetVars,
                 requests, last>>

\* the callback has returned: the statements take effect together
TxCommit(p) ==
  /\ InUnit(p)
  /\ Executed(inflight[p].pc) = StmtCount(inflight[p].op)
  /\ LET r == UnitOf(p, 0)
     IN  /\ Store(r.db)
         /\ nextTxnId' = IF r.status = 201 THEN nextTxnId + 1 ELSE nextTxnId
  /\ inflight' = [inflight EXCEPT ![p] = Parked]
  /\ UNCHANGED <<opening, authVars, categoryVars, accountVars, budgetVars, requests, last>>

\* a query of another request while units are under way
Read ==
  /\ last = Idle
  /\ \E p \in Procs : InUnit(p) /\ Executed(inflight[p].pc) > 0
  /\ last' = [op |-> "read", seen |-> Db]
  /\ UNCHANGED <<accounts, opening, authVars, categoryVars, transactions, nextTxnId,
                 accountVars, budgetVars, concVars>>

RunStatement == \E p \in Procs : TxStatement(p)
FailStatement == \E p \in Procs : TxThrow(p)
Commit == \E p \in Procs : TxCommit(p)

NextSteps ==
  \/ BeginPost
  \/ BeginPut
  \/ ValidatePut
  \/ BeginDelete
  \/ RunStatement
  \/ FailStatement
  \/ Commit
  \/ Read

SpecSteps == Init /\ [][NextSteps]_vars

\* --------------------------------------------------------- /api/categories
\* "" stands for a missing name
CategoryNameInputs == {"", "Food", "Rent", "Salary"}
CategoryTypeInputs == {"INCOME", "EXPENSE", "BOGUS"}
CategoryInputs == [name : CategoryNameInputs, type : CategoryTypeInputs]

\* the unique index on (userId, name): another category of the owner has the
\* name (the insert or update then throws P2002)
NameTakenAnyOwner(u, name, id) ==
  \E c \in CategoryIds \ {id} :
    categories[c] # NoRow /\ categories[c].name = name
NameTaken(u, name, id) ==
  \E c \in CategoryIds \ {id} :
    categories[c] # NoRow /\ categories[c].userId = u /\ categories[c].name = name

\* the checks POST and PUT make on the body
CategoryBody(c) ==
  IF c.name = "" THEN Reject(400, "Name and type are required")
  ELSE IF c.type \notin {"INCOME", "EXPENSE"} THEN Reject(400, "Invalid category type")
  ELSE Pass

\* POST /api/categories
CategoryPost(u, c) ==
  LET v == CategoryBody(c)
  IN  IF v # Pass THEN Result(v.status, v.error, 0, categories)
      ELSE IF NameTaken(u, c.name, 0)
        THEN Result(409, "Category name already exists", 0, categories)
      ELSE Result(201, "", nextCategoryId,
             [categories EXCEPT ![nextCategoryId] =
                [userId |-> u, name |-> c.name, type |-> c.type, isDefault |-> FALSE]])

\* prisma.transaction.count({ where: { categoryId } })
CountCategoryTransactions(id) ==
  Cardinality({t \in TxnIds : transactions[t] # NoRow /\ transactions[t].categoryId = id})

\* PUT /api/categories/[id]
CategoryPutNoDefaultCheck(u, id, c) ==
  LET v == CategoryBody(c)
  IN  IF v # Pass THEN Result(v.status, v.error, 0, categories)
      ELSE IF FindFirst(categories, CategoryIds, id, u) = NoRow
        THEN Result(404, "Category not found", 0, categories)
      ELSE IF NameTaken(u, c.name, id)
        THEN Result(409, "Category name already exists", 0, categories)
      ELSE Result(200, "", id,
             [categories EXCEPT ![id] = [@ EXCEPT !.name = c.name, !.type = c.type]])
CategoryPut(u, id, c) ==
  LET v == CategoryBody(c)
  IN  IF v # Pass THEN Result(v.status, v.error, 0, categories)
      ELSE IF FindFirst(categories, CategoryIds, id, u) = NoRow
        THEN Result(404, "Category not found", 0, categories)
      ELSE IF categories[id].isDefault
        THEN Result(400, "Cannot edit default categories", 0, categories)
      ELSE IF NameTaken(u, c.name, id)
        THEN Result(409, "Category name already exists", 0, categories)
      ELSE Result(200, "", id,
             [categories EXCEPT ![id] = [@ EXCEPT !.name = c.name, !.type = c.type]])

\* DELETE /api/categories/[id]
CategoryDel(u, id) ==
  IF FindFirst(categories, CategoryIds, id, u) = NoRow
    THEN Result(404, "Category not found", 0, categories)
  ELSE IF categories[id].isDefault
    THEN Result(400, "Cannot delete default categories", 0, categories)
  ELSE IF CountCategoryTransactions(id) > 0
    THEN Result(400, "Cannot delete category with existing transactions", 0, categories)
  ELSE Result(200, "", id, [categories EXCEPT ![id] = NoRow])

CategoryCreate(u, c) ==
  /\ last = Idle
  /\ nextCategoryId <= MaxCategories
  /\ LET r == CategoryPost(u, c)
     IN  /\ categories' = r.db
         /\ nextCategoryId' = IF r.status = 201 THEN nextCategoryId + 1 ELSE nextCategoryId
         /\ last' = Answer("categoryCreate", u, r)
  /\ UNCHANGED <<accounts, opening, authVars, transactions, nextTxnId, accountVars, budgetVars,
                 concVars>>

CategoryUpdate(u, id, c) ==
  /\ last = Idle
  /\ LET r == CategoryPut(u, id, c)
     IN  /\ categories' = r.db
         /\ last' = Answer("categoryUpdate", u, r)
  /\ UNCHANGED <<accounts, opening, authVars, nextCategoryId, transactions, nextTxnId, accountVars,
                 budgetVars, concVars>>

\* Budget.category is onDelete: Cascade: the budgets of a deleted category go
\* with it
CascadeKeepsBudgets(id) == budgets
CascadeBudgets(id) ==
  [b \in BudgetIds |->
     IF budgets[b] # NoRow /\ budgets[b].categoryId = id THEN NoRow ELSE budgets[b]]

CategoryDelete(u, id) ==
  /\ last = Idle
  /\ LET r == CategoryDel(u, id)
     IN  /\ categories' = r.db
         /\ budgets' = IF r.status = 200 THEN CascadeBudgets(id) ELSE budgets
         /\ last' = Answer("categoryDelete", u, r)
  /\ UNCHANGED <<accounts, opening, authVars, nextCategoryId, transactions, nextTxnId, accountVars,
                 nextBudgetId, concVars>>

PostCategory ==
  /\ last = Idle
  /\ \E u \in Users, c \in CategoryInputs : CategoryCreate(u, c)

PutCategory ==
  /\ last = Idle
  /\ \E u \in Users, id \in CategoryIds, c \in CategoryInputs : CategoryUpdate(u, id, c)

DeleteCategory ==
  /\ last = Idle
  /\ \E u \in Users, id \in CategoryIds : CategoryDelete(u, id)

\* the ledger together with the category handlers
NextCategories ==
  \/ PostCategory
  \/ PutCategory
  \/ DeleteCategory
  \/ PostTransaction
  \/ PutTransaction
  \/ DeleteTransaction
  \/ Respond

SpecCategories == Init /\ [][NextCategories]_vars

\* ------------------------------------------------------------ /api/budgets
\* days; categoryId 0 is null (a budget over all categories)
Dates == 1..MaxBudgetDate
Absent == 0 - 1

\* amounts are in hundredths, as everywhere; the periods of the enum that the
\* requests of the model use
BudgetAmountInputs == {30}
Periods == {"MONTHLY", "WEEKLY"}
PeriodInputs == {"MONTHLY"}

\* wf: the body passes the zod schema (a name, a positive amount, a period of
\* the enum, dates)
BudgetInputs ==
  [wf : BOOLEAN, amount : BudgetAmountInputs, period : PeriodInputs,
   categoryId : {0} \cup CategoryRefs, startDate : Dates, endDate : Dates]
BudgetPatches ==
  [wf : BOOLEAN, amount : {Absent} \cup BudgetAmountInputs,
   period : {""} \cup PeriodInputs, categoryId : {Absent} \cup CategoryRefs,
   startDate : {Absent} \cup Dates, endDate : {Absent} \cup Dates]

\* the OR of the overlap query, for one stored budget and the new window
OverlapQueryExclusive(row, startDate, endDate) ==
  \/ row.startDate < startDate /\ row.endDate > startDate
  \/ row.startDate < endDate /\ row.endDate > endDate
  \/ row.startDate >= startDate /\ row.endDate <= endDate
OverlapQueryTwoWay(row, startDate, endDate) ==
  \/ row.startDate <= startDate /\ row.endDate >= startDate
  \/ row.startDate <= endDate /\ row.endDate >= endDate
OverlapQuery(row, startDate, endDate) ==
  \/ row.startDate <= startDate /\ row.endDate >= startDate
  \/ row.startDate <= endDate /\ row.endDate >= endDate
  \/ row.startDate >= startDate /\ row.endDate <= endDate

\* POST /api/budgets
BudgetPost(u, b) ==
  IF ~b.wf THEN Result(400, "Data tidak valid", 0, budgets)
  ELSE IF b.categoryId # 0 /\ FindFirst(categories, CategoryIds, b.categoryId, u) = NoRow
    THEN Result(404, "Kategori tidak ditemukan", 0, budgets)
  ELSE IF \E i \in BudgetIds :
            /\ budgets[i] # NoRow
            /\ budgets[i].userId = u
            /\ budgets[i].categoryId = b.categoryId
            /\ OverlapQuery(budgets[i], b.startDate, b.endDate)
    THEN Result(400, "Budget untuk periode dan kategori ini sudah ada", 0, budgets)
  ELSE Result(201, "", nextBudgetId,
         [budgets EXCEPT ![nextBudgetId] =
            [userId |-> u, amount |-> b.amount, period |-> b.period,
             categoryId |-> b.categoryId,
             startDate |-> b.startDate, endDate |-> b.endDate]])

\* PUT /api/budgets/[id]: the fields given replace the stored ones
BudgetPut(u, id, b) ==
  IF ~b.wf THEN Result(400, "Data tidak valid", 0, budgets)
  ELSE IF FindFirst(budgets, BudgetIds, id, u) = NoRow
    THEN Result(404, "Budget tidak ditemukan", 0, budgets)
  ELSE IF b.categoryId # Absent /\ FindFirst(categories, CategoryIds, b.categoryId, u) = NoRow
    THEN Result(404, "Kategori tidak ditemukan", 0, budgets)
  ELSE Result(200, "", id,
         [budgets EXCEPT ![id] =
            [@ EXCEPT !.amount = IF b.amount = Absent THEN @ ELSE b.amount,
                      !.period = IF b.period = "" THEN @ ELSE b.period,
                      !.categoryId = IF b.categoryId = Absent THEN @ ELSE b.categoryId,
                      !.startDate = IF b.startDate = Absent THEN @ ELSE b.startDate,
                      !.endDate = IF b.endDate = Absent THEN @ ELSE b.endDate]])

\* DELETE /api/budgets/[id]
BudgetDel(u, id) ==
  IF FindFirst(budgets, BudgetIds, id, u) = NoRow
    THEN Result(404, "Budget tidak ditemukan", 0, budgets)
  ELSE Result(200, "", id, [budgets EXCEPT ![id] = NoRow])

BudgetCreate(u, b) ==
  /\ last = Idle
  /\ nextBudgetId <= MaxBudgets
  /\ LET r == BudgetPost(u, b)
     IN  /\ budgets' = r.db
         /\ nextBudgetId' = IF r.status = 201 THEN nextBudgetId + 1 ELSE nextBudgetId
         /\ last' = Answer("budgetCreate", u, r)
  /\ UNCHANGED <<accounts, opening, authVars, categoryVars, transactions, nextTxnId, accountVars,
                 concVars>>

BudgetUpdate(u, id, b) ==
  /\ last = Idle
  /\ LET r == BudgetPut(u, id, b)
     IN  /\ budgets' = r.db
         /\ last' = Answer("budgetUpdate", u, r)
  /\ UNCHANGED <<accounts, opening, authVars, categoryVars, transactions, nextTxnId, accountVars,
                 nextBudgetId, concVars>>

BudgetDelete(u, id) ==
  /\ last = Idle
  /\ LET r == BudgetDel(u, id)
     IN  /\ budgets' = r.db
         /\ last' = Answer("budgetDelete", u, r)
  /\ UNCHANGED <<accounts, opening, authVars, categoryVars, transactions, nextTxnId, accountVars,
                 nextBudgetId, concVars>>

PostBudget ==
  /\ last = Idle
  /\ \E u \in Users, b \in BudgetInputs : BudgetCreate(u, b)

PutBudget ==
  /\ last = Idle
  /\ \E u \in Users, id \in BudgetIds, b \in BudgetPatches : BudgetUpdate(u, id, b)

DeleteBudget ==
  /\ last = Idle
  /\ \E u \in Users, id \in BudgetIds : BudgetDelete(u, id)

NextBudget ==
  \/ PostBudget
  \/ PutBudget
  \/ DeleteBudget
  \/ Respond

SpecBudget == Init /\ [][NextBudget]_vars

\* ------------------------------------------------- JavaScript Number values
\* Number is an IEEE 754 double.  A finite double is held exactly as
\* (-1)^neg * m * 2^e with m a whole number of exactly MantissaBits bits (or
\* m = 0), and m is held in limbs of LimbBits bits, lowest limb first, because
\* it does not fit one machine integer of the checker.
MantissaBits == 53
LimbBits == 14
Base == 2^LimbBits

Limb(a, i) == IF i <= Len(a) THEN a[i] ELSE 0

RECURSIVE Trim(_)
Trim(a) ==
  IF a = <<>> THEN a
  ELSE IF a[Len(a)] = 0 THEN Trim(SubSeq(a, 1, Len(a) - 1)) ELSE a

RECURSIVE BigFromInt(_)
BigFromInt(n) == IF n = 0 THEN <<>> ELSE <<n % Base>> \o BigFromInt(n \div Base)

RECURSIVE BigAddC(_, _, _, _)
BigAddC(a, b, i, c) ==
  IF i > Len(a) /\ i > Len(b) THEN (IF c = 0 THEN <<>> ELSE <<c>>)
  ELSE LET s == Limb(a, i) + Limb(b, i) + c
       IN  <<s % Base>> \o BigAddC(a, b, i + 1, s \div Base)
BigAdd(a, b) == BigAddC(a, b, 1, 0)

\* a - b for a >= b
RECURSIVE BigSubC(_, _, _, _)
BigSubC(a, b, i, c) ==
  IF i > Len(a) THEN <<>>
  ELSE LET d == Limb(a, i) - Limb(b, i) - c
       IN  <<d % Base>> \o BigSubC(a, b, i + 1, IF d < 0 THEN 1 ELSE 0)
BigSub(a, b) == Trim(BigSubC(a, b, 1, 0))

\* a * k for a whole number k < Base
RECURSIVE BigMulSmallC(_, _, _, _)
BigMulSmallC(a, k, i, c) ==
  IF i > Len(a) THEN (IF c = 0 THEN <<>> ELSE <<c>>)
  ELSE LET p == a[i] * k + c
       IN  <<p % Base>> \o BigMulSmallC(a, k, i + 1, p \div Base)
BigMulSmall(a, k) == Trim(BigMulSmallC(a, k, 1, 0))

RECURSIVE BigMulR(_, _, _)
BigMulR(a, b, j) ==
  IF j > Len(b) THEN <<>>
  ELSE BigAdd(BigMulSmall(a, b[j]), <<0>> \o BigMulR(a, b, j + 1))
BigMul(a, b) == Trim(BigMulR(a, b, 1))

\* -1, 0, 1 as a < b, a = b, a > b
RECURSIVE BigCmpR(_, _, _)
BigCmpR(a, b, i) ==
  IF i = 0 THEN 0
  ELSE IF a[i] < b[i] THEN 0 - 1
  ELSE IF a[i] > b[i] THEN 1
  ELSE BigCmpR(a, b, i - 1)
BigCmp(a, b) ==
  IF Len(a) < Len(b) THEN 0 - 1
  ELSE IF Len(a) > Len(b) THEN 1
  ELSE BigCmpR(a, b, Len(a))

\* a \div k for 0 < k < Base; r is the remainder carried down from above
RECURSIVE BigDivSmallR(_, _, _, _)
BigDivSmallR(a, k, i, r) ==
  IF i = 0 THEN <<>>
  ELSE LET cur == r * Base + a[i]
       IN  BigDivSmallR(a, k, i - 1, cur % k) \o <<cur \div k>>
BigDivSmall(a, k) == Trim(BigDivSmallR(a, k, Len(a), 0))

RECURSIVE SmallBitLen(_)
SmallBitLen(n) == IF n = 0 THEN 0 ELSE 1 + SmallBitLen(n \div 2)
BitLen(a) ==
  IF a = <<>> THEN 0 ELSE LimbBits * (Len(a) - 1) + SmallBitLen(a[Len(a)])

Shl(a, s) ==
  IF a = <<>> THEN a
  ELSE [i \in 1..(s \div LimbBits) |-> 0] \o BigMulSmall(a, 2^(s % LimbBits))
Shr(a, s) ==
  IF s \div LimbBits >= Len(a) THEN <<>>
  ELSE BigDivSmall(SubSeq(a, s \div LimbBits + 1, Len(a)), 2^(s % LimbBits))
IsOdd(a) == a # <<>> /\ a[1] % 2 = 1

Float(neg, m, e) == [neg |-> neg, m |-> m, e |-> e]
Zero == Float(FALSE, <<>>, 0)

\* a mantissa that grew to MantissaBits + 1 bits is halved (it is then even)
Renormalize(neg, m, e) ==
  IF BitLen(m) > MantissaBits THEN Float(neg, Shr(m, 1), e + 1) ELSE Float(neg, m, e)

\* n has s > 0 bits too many: q is n without them, h is n without s - 1 of
\* them; round to nearest, a tie to the even mantissa
RoundOff(neg, n, e, s, q, h) ==
  IF IsOdd(h) /\ (IsOdd(q) \/ Shl(h, s - 1) # n)
    THEN Renormalize(neg, BigAdd(q, <<1>>), e + s)
    ELSE Float(neg, q, e + s)

\* the double nearest to (-1)^neg * n * 2^e
RoundBits(neg, n, e, s) ==
  IF s <= 0 THEN Float(neg, Shl(n, 0 - s), e + s)
  ELSE RoundOff(neg, n, e, s, Shr(n, s), Shr(n, s - 1))
RoundToDouble(neg, n, e) ==
  IF n = <<>> THEN Zero ELSE RoundBits(neg, n, e, BitLen(n) - MantissaBits)

FromInt(n) == RoundToDouble(FALSE, BigFromInt(n), 0)
Neg(x) == IF x.m = <<>> THEN x ELSE [x EXCEPT !.neg = ~x.neg]

\* x + y, from the mantissas a and b of x and y at the common exponent e
PlusAligned(x, y, a, b, e, c) ==
  IF x.neg = y.neg THEN RoundToDouble(x.neg, BigAdd(a, b), e)
  ELSE IF c = 0 THEN Zero
  ELSE IF c > 0 THEN RoundToDouble(x.neg, BigSub(a, b), e)
  ELSE RoundToDouble(y.neg, BigSub(b, a), e)
PlusAt(x, y, a, b, e) == PlusAligned(x, y, a, b, e, BigCmp(a, b))
PlusFrom(x, y, e) == PlusAt(x, y, Shl(x.m, x.e - e), Shl(y.m, y.e - e), e)

\* x + y
Plus(x, y) == PlusFrom(x, y, IF x.e < y.e THEN x.e ELSE y.e)

\* x - y
Minus(x, y) == Plus(x, Neg(y))

\* x * y
Times(x, y) == RoundToDouble(x.neg # y.neg, BigMul(x.m, y.m), x.e + y.e)

\* a mantissa as two halves of 2 limbs each, and back
HalfBase == Base * Base
Lo(a) == Limb(a, 1) + Base * Limb(a, 2)
Hi(a) == Limb(a, 3) + Base * Limb(a, 4)
FromHalves(hi, lo) ==
  Trim(<<lo % Base, lo \div Base, hi % Base, (hi \div Base) % Base, hi \div HalfBase>>)

\* long division, one bit a step: k more bits of the quotient q of r / d
\* (r < 2d on entry) and what is left of r; all numbers in halves
RECURSIVE DivBits(_, _, _, _, _, _, _)
DivStep(rh, rl, dh, dl, k, q2, qh) ==
  DivBits(2 * rh + (2 * rl) \div HalfBase, (2 * rl) % HalfBase, dh, dl, k - 1,
          2 * qh + q2 \div HalfBase, q2 % HalfBase)
DivBits(rh, rl, dh, dl, k, qh, ql) ==
  IF k = 0 \/ qh < 0 \/ ql < 0
    THEN [rh |-> rh, rl |-> rl, qh |-> qh, ql |-> ql]
  ELSE IF rh > dh \/ (rh = dh /\ rl >= dl)
    THEN DivStep(IF rl >= dl THEN rh - dh ELSE rh - dh - 1,
                 IF rl >= dl THEN rl - dl ELSE rl - dl + HalfBase,
                 dh, dl, k, 2 * ql + 1, qh)
    ELSE DivStep(rh, rl, dh, dl, k, 2 * ql, qh)
DivMore(s, dh, dl, k) == DivBits(s.rh, s.rl, dh, dl, k, s.qh, s.ql)

\* x / y for y # 0, from the quotient of the mantissas to 3 * DivChunk =
\* MantissaBits + 4 bits; one more bit below them says whether the division
\* left a remainder
DivChunk == 19
OverBits(x, y, d) ==
  RoundToDouble(x.neg # y.neg,
                BigAdd(BigMulSmall(FromHalves(d.qh, d.ql), 2),
                       IF d.rh # 0 \/ d.rl # 0 THEN <<1>> ELSE <<>>),
                x.e - y.e - 3 * DivChunk)
OverMantissas(x, y, dh, dl) ==
  OverBits(x, y,
    DivMore(DivMore(DivBits(Hi(x.m), Lo(x.m), dh, dl, DivChunk, 0, 0),
                    dh, dl, DivChunk),
            dh, dl, DivChunk))
Over(x, y) ==
  IF x.m = <<>> THEN Zero ELSE OverMantissas(x, y, Hi(y.m), Lo(y.m))

\* x < y
Less(x, y) == LET d == Minus(x, y) IN d.m # <<>> /\ d.neg

\* Math.round(x) for x >= 0: the nearest whole number, halves upwards
MathRound(x) ==
  IF x.e >= 0 THEN x
  ELSE RoundToDouble(FALSE, Shr(BigAdd(Shr(x.m, 0 - x.e - 1), <<1>>), 1), 0)

\* Number(d) for the amounts the model stores, computed once
MaxCents == 100
NumberTable == [cents \in 0..MaxCents |-> Over(FromInt(cents), FromInt(100))]
Number(cents) ==
  IF cents \in DOMAIN NumberTable THEN NumberTable[cents]
  ELSE Over(FromInt(cents), FromInt(100))

\* ------------------------------------------------------ budget evaluation
\* whereTransactions: the caller's EXPENSE transactions dated inside the
\* budget's window, of the budget's category when it has one
SpendingAnyCategory(u, budget) ==
  {t \in DOMAIN transactions :
     /\ transactions[t] # NoRow
     /\ transactions[t].userId = u
     /\ transactions[t].type = "EXPENSE"
     /\ transactions[t].date >= budget.startDate
     /\ transactions[t].date <= budget.endDate}
Spending(u, budget) ==
  {t \in DOMAIN transactions :
     /\ transactions[t] # NoRow
     /\ transactions[t].userId = u
     /\ transactions[t].type = "EXPENSE"
     /\ transactions[t].date >= budget.startDate
     /\ transactions[t].date <= budget.endDate
     /\ (budget.categoryId # 0 => transactions[t].categoryId = budget.categoryId)}

\* the orders in which a findMany may hand back the rows S
Orderings(S) ==
  {s \in [1..Cardinality(S) -> S] : \A i, j \in 1..Cardinality(S) : i # j => s[i] # s[j]}

\* findMany without orderBy (list, summary): the database picks the order
Unordered(S) == Orderings(S)

\* findMany with orderBy: { date: 'desc' } (detail): equal dates in any order
ByDateDesc(S) ==
  {s \in Orderings(S) :
     \A i, j \in DOMAIN s : i < j => transactions[s[i]].date >= transactions[s[j]].date}

\* transactions.reduce((sum, transaction) => sum + Number(transaction.amount), 0)
RECURSIVE Reduce(_, _, _)
Reduce(rows, i, sum) ==
  IF i > Cardinality(DOMAIN rows) THEN sum
  ELSE Reduce(rows, i + 1, Plus(sum, Number(transactions[rows[i]].amount)))

\* GET /api/budgets: the element of budgetsWithSpending for one budget
ListStatusInclusive(budgetAmount, remaining) ==
  IF Less(remaining, Zero) THEN "overbudget"
  ELSE IF ~Less(Times(budgetAmount, Number(10)), remaining) THEN "warning"
  ELSE "good"
ListStatus(budgetAmount, remaining) ==
  IF Less(remaining, Zero) THEN "overbudget"
  ELSE IF Less(remaining, Times(budgetAmount, Number(10))) THEN "warning"
  ELSE "good"
ListEvaluated(budgetAmount, totalSpent, remaining) ==
  [amount |-> budgetAmount, totalSpent |-> totalSpent, remaining |-> remaining,
   status |-> ListStatus(budgetAmount, remaining)]
ListSpending(budgetAmount, totalSpent) ==
  ListEvaluated(budgetAmount, totalSpent, Minus(budgetAmount, totalSpent))
ListBudget(budget, rows) == ListSpending(Number(budget.amount), Reduce(rows, 1, Zero))
ListPercentageUsed(e) ==
  Over(MathRound(Times(IF Less(Zero, e.amount)
                         THEN Times(Over(e.totalSpent, e.amount), FromInt(100))
                         ELSE Zero,
                       FromInt(100))),
       FromInt(100))

\* the query of GET /api/budgets: period, categoryId and status are optional
ListQueries ==
  [period : {""} \cup Periods, categoryId : {0, 2},
   status : {"", "active", "completed"}, now : 1..(MaxBudgetDate + 1)]

\* whereClause of GET /api/budgets
ListedBudgets(u, q) ==
  {b \in BudgetIds :
     /\ budgets[b] # NoRow
     /\ budgets[b].userId = u
     /\ (q.period # "" => budgets[b].period = q.period)
     /\ (q.categoryId # 0 => budgets[b].categoryId = q.categoryId)
     /\ (q.status = "active" =>
           budgets[b].startDate <= q.now /\ budgets[b].endDate >= q.now)
     /\ (q.status = "completed" => budgets[b].endDate < q.now)}

\* what GET /api/budgets may report for the caller's budget b
ListValues(u, b) ==
  {ListBudget(budgets[b], rows) : rows \in Unordered(Spending(u, budgets[b]))}

\* GET /api/budgets/[id]: budgetWithDetails
DetailStatus(budgetAmount, remaining) ==
  IF Less(remaining, Zero) THEN "overbudget"
  ELSE IF Less(remaining, Times(budgetAmount, Number(10))) THEN "warning"
  ELSE "good"
DetailEvaluated(budgetAmount, totalSpent, remaining) ==
  [amount |-> budgetAmount, totalSpent |-> totalSpent, remaining |-> remaining,
   status |-> DetailStatus(budgetAmount, remaining)]
DetailSpending(budgetAmount, totalSpent) ==
  DetailEvaluated(budgetAmount, totalSpent, Minus(budgetAmount, totalSpent))
DetailBudget(budget, rows) == DetailSpending(Number(budget.amount), Reduce(rows, 1, Zero))
DetailPercentageUsed(e) ==
  Over(MathRound(Times(IF Less(Zero, e.amount)
                         THEN Times(Over(e.totalSpent, e.amount), FromInt(100))
                         ELSE Zero,
                       FromInt(100))),
       FromInt(100))

\* what GET /api/budgets/[id] may report for the caller's budget b
DetailValues(u, b) ==
  {DetailBudget(budgets[b], rows) : rows \in ByDateDesc(Spending(u, budgets[b]))}

\* GET /api/budgets/summary: the element of budgetSummary for one budget
SummaryStatus(budgetAmount, remaining) ==
  IF Less(remaining, Zero) THEN "overbudget"
  ELSE IF Less(remaining, Times(budgetAmount, Number(10))) THEN "warning"
  ELSE "good"
SummaryEvaluated(budgetAmount, totalSpent, remaining) ==
  [amount |-> budgetAmount, totalSpent |-> totalSpent, remaining |-> remaining,
   status |-> SummaryStatus(budgetAmount, remaining)]
SummarySpending(budgetAmount, totalSpent) ==
  SummaryEvaluated(budgetAmount, totalSpent, Minus(budgetAmount, totalSpent))
SummaryBudget(budget, rows) == SummarySpending(Number(budget.amount), Reduce(rows, 1, Zero))
SummaryPercentageUsed(e) ==
  Over(MathRound(Times(IF Less(Zero, e.amount)
                         THEN Times(Over(e.totalSpent, e.amount), FromInt(100))
                         ELSE Zero,
                       FromInt(100))),
       FromInt(100))

SummaryValues(u, b) ==
  {SummaryBudget(budgets[b], rows) : rows \in Unordered(Spending(u, budgets[b]))}

\* the query of GET /api/budgets/summary: period is optional, now is the clock
SummaryQueries == [period : {""} \cup Periods, now : 1..(MaxBudgetDate + 1)]

\* activeBudgets
ActiveBudgets(u, q) ==
  {b \in BudgetIds :
     /\ budgets[b] # NoRow
     /\ budgets[b].userId = u
     /\ budgets[b].period = (IF q.period = "" THEN "MONTHLY" ELSE q.period)
     /\ budgets[b].startDate <= q.now
     /\ budgets[b].endDate >= q.now}

\* budgetSummary: the active budgets in the order bs, each with one of the
\* values its evaluation may give
RECURSIVE BudgetSummaries(_, _, _)
BudgetSummaries(u, bs, i) ==
  IF i > Cardinality(DOMAIN bs) THEN {<<>>}
  ELSE {<<e>> \o rest : e \in SummaryValues(u, bs[i]),
                        rest \in BudgetSummaries(u, bs, i + 1)}

\* budgetSummary.reduce((sum, budget) => sum + budget.amount, 0) and the same
\* over totalSpent
RECURSIVE ReduceField(_, _, _, _)
ReduceField(budgetSummary, field, i, sum) ==
  IF i > Len(budgetSummary) THEN sum
  ELSE ReduceField(budgetSummary, field, i + 1, Plus(sum, budgetSummary[i][field]))

\* budgetsByStatus[status] (0 where the response has no such key)
CountStatus(budgetSummary, status) ==
  Cardinality({i \in DOMAIN budgetSummary : budgetSummary[i].status = status})

\* function generateRecommendations(budgets, totalSpent, totalBudget)
OverallPercentage(totalSpent, totalBudget) ==
  IF Less(Zero, totalBudget)
    THEN Times(Over(totalSpent, totalBudget), FromInt(100))
    ELSE Zero
OverallAdviceLoose(overallPercentage) ==
  IF Less(FromInt(90), overallPercentage)
    THEN <<[type |-> "warning", title |-> "Total Pengeluaran Tinggi"]>>
  ELSE IF ~Less(FromInt(50), overallPercentage)
    THEN <<[type |-> "success", title |-> "Pengelolaan Budget Baik"]>>
  ELSE <<>>
OverallAdvice(overallPercentage) ==
  IF Less(FromInt(90), overallPercentage)
    THEN <<[type |-> "warning", title |-> "Total Pengeluaran Tinggi"]>>
  ELSE IF Less(overallPercentage, FromInt(50))
    THEN <<[type |-> "success", title |-> "Pengelolaan Budget Baik"]>>
  ELSE <<>>
generateRecommendations(budgets_, totalSpent, totalBudget) ==
  (IF CountStatus(budgets_, "overbudget") > 0
     THEN <<[type |-> "warning", title |-> "Budget Terlampaui"]>> ELSE <<>>)
  \o (IF CountStatus(budgets_, "warning") > 0
        THEN <<[type |-> "info", title |-> "Mendekati Batas Budget"]>> ELSE <<>>)
  \o OverallAdvice(OverallPercentage(totalSpent, totalBudget))
  \o (IF Len(budgets_) = 0
        THEN <<[type |-> "info", title |-> "Buat Budget Pertama"]>> ELSE <<>>)

\* summary.overview and summary.recommendations for one budgetSummary
Overview(budgetSummary, totalBudgetAmount, totalSpent) ==
  [totalBudgets |-> Len(budgetSummary),
   totalBudgetAmount |-> totalBudgetAmount,
   totalSpent |-> totalSpent,
   totalRemaining |-> Minus(totalBudgetAmount, totalSpent),
   overbudget |-> CountStatus(budgetSummary, "overbudget"),
   warning |-> CountStatus(budgetSummary, "warning"),
   good |-> CountStatus(budgetSummary, "good")]
SummaryOverview(budgetSummary) ==
  Overview(budgetSummary,
           ReduceField(budgetSummary, "amount", 1, Zero),
           ReduceField(budgetSummary, "totalSpent", 1, Zero))
OverallPercentageUsed(overview) ==
  Over(MathRound(Times(IF Less(Zero, overview.totalBudgetAmount)
                         THEN Times(Over(overview.totalSpent, overview.totalBudgetAmount),
                                    FromInt(100))
                         ELSE Zero,
                       FromInt(100))),
       FromInt(100))
SummaryRecommendations(budgetSummary, overview) ==
  generateRecommendations(budgetSummary, overview.totalSpent, overview.totalBudgetAmount)

\* the budgetSummary arrays GET /api/budgets/summary may work on
SummaryLists(u, q) ==
  UNION {BudgetSummaries(u, bs, 1) : bs \in Orderings(ActiveBudgets(u, q))}

\* ------------------------------------------------------- the three reads
Shown(op, u, status, error, id, shown) ==
  [op |-> op, userId |-> u, status |-> status, error |-> error, id |-> id,
   shown |-> shown]

BudgetList(u, q) ==
  /\ last = Idle
  /\ last' = Shown("budgetList", u, 200, "", 0, ListedBudgets(u, q))
  /\ UNCHANGED <<accounts, opening, authVars, categoryVars, transactions, nextTxnId, accountVars,
                 budgetVars, concVars>>

BudgetDetail(u, id) ==
  /\ last = Idle
  /\ last' = IF FindFirst(budgets, BudgetIds, id, u) = NoRow
               THEN Shown("budgetDetail", u, 404, "Budget tidak ditemukan", 0, {})
               ELSE Shown("budgetDetail", u, 200, "", id, {id})
  /\ UNCHANGED <<accounts, opening, authVars, categoryVars, transactions, nextTxnId, accountVars,
                 budgetVars, concVars>>

BudgetSummary(u, q) ==
  /\ last = Idle
  /\ last' = Shown("budgetSummary", u, 200, "", q.now, ActiveBudgets(u, q))
  /\ UNCHANGED <<accounts, opening, authVars, categoryVars, transactions, nextTxnId, accountVars,
                 budgetVars, concVars>>

GetBudgets ==
  /\ last = Idle
  /\ \E u \in Users, q \in ListQueries : BudgetList(u, q)

GetBudget ==
  /\ last = Idle
  /\ \E u \in Users, id \in BudgetIds : BudgetDetail(u, id)

GetBudgetSummary ==
  /\ last = Idle
  /\ \E u \in Users, q \in SummaryQueries : BudgetSummary(u, q)

\* the stored worlds the reads are checked on: up to MaxEvalTxns transactions
\* and the budgets of user 1, as the handlers above can have left them
MaxEvalTxns == 3
EvalTxnIds == 1..MaxEvalTxns
EvalAmounts == {10, 20, 30}
BudgetAmounts == {30, 60}

\* a category user 1 has created
UserCategory ==
  [userId |-> 1, name |-> "Rent", type |-> "EXPENSE", isDefault |-> FALSE]
EvalCategories ==
  [c \in CategoryIds |->
     IF c \in SeededCategoryIds THEN SeededCategory(c)
     ELSE IF c = 4 THEN UserCategory ELSE NoRow]

\* the transactions POST accepts in that world: expenses of user 1 on "Food",
\* and on day 2 one of 20 of every other owner, type and category
EvalRows ==
  {r \in [userId : Users, amount : EvalAmounts, type : {"INCOME", "EXPENSE"},
          accountId : AccountIds, categoryId : 1..4, date : Dates] :
     /\ r.accountId = (IF r.userId = 1 THEN 1 ELSE 3)
     /\ EvalCategories[r.categoryId].userId = r.userId
     /\ EvalCategories[r.categoryId].type = r.type
     /\ \/ r.userId = 1 /\ r.categoryId = 2
        \/ r.amount = 20 /\ r.date = 2}

RowKey(r) ==
  IF r = NoRow THEN 0
  ELSE (((r.userId * 2 + (IF r.type = "EXPENSE" THEN 0 ELSE 1)) * 5 + r.categoryId)
          * (MaxBudgetDate + 1) + r.date) * 100 + r.amount

EvalBudgetRows ==
  {b \in [userId : {1}, amount : BudgetAmounts, period : PeriodInputs,
          categoryId : {0, 2}, startDate : Dates, endDate : Dates] :
     \/ b.startDate = 1 /\ b.endDate = MaxBudgetDate
     \/ b.startDate = 2 /\ b.endDate = 2}

\* the balances the ledger tx leaves
EvalBalance(tx, a) ==
  OpeningBalance
    + SumOver({t \in DOMAIN tx : tx[t] # NoRow /\ tx[t].accountId = a},
              [t \in DOMAIN tx |->
                 IF tx[t] = NoRow THEN 0 ELSE BalanceChange(tx[t].type, tx[t].amount)])

EvalInit ==
  /\ transactions \in
       {tx \in [EvalTxnIds -> EvalRows \cup {NoRow}] :
          \A i, j \in EvalTxnIds : i < j => RowKey(tx[i]) >= RowKey(tx[j])}
  /\ nextTxnId = MaxEvalTxns + 1
  /\ accounts = [a \in AccountIds |->
       [userId |-> IF a = 3 THEN 2 ELSE 1, balance |-> EvalBalance(transactions, a),
        isActive |-> TRUE]]
  /\ opening = [a \in AccountIds |-> OpeningBalance]
  /\ categories = EvalCategories
  /\ nextCategoryId = 5
  /\ budgets \in
       {bd \in [BudgetIds -> EvalBudgetRows \cup {NoRow}] :
          /\ bd[1] # NoRow
          /\ \A i \in BudgetIds \ {1} :
               \/ bd[i] = NoRow
               \/ /\ i = 2
                  /\ bd[2].amount = 30
                  /\ bd[2].categoryId # bd[1].categoryId
                  /\ bd[2].startDate = 1
                  /\ bd[2].endDate = MaxBudgetDate}
  /\ nextBudgetId = MaxBudgets + 1
  /\ accountOps = 0
  /\ inflight = [p \in Procs |-> Parked]
  /\ requests = 0
  /\ users = [i \in UserIds |-> IF i \in Users THEN SeededUser(i) ELSE NoUser]
  /\ nextUserId = 3
  /\ registered = [i \in UserIds |-> {}]
  /\ clock = 0
  /\ last = Idle

NextEval ==
  \/ GetBudgets
  \/ GetBudget
  \/ GetBudgetSummary
  \/ Respond

SpecEval == EvalInit /\ [][NextEval]_vars

\* the summary on its own, over the stores that leave the last transaction slot
\* empty
SummaryInit ==
  /\ EvalInit
  /\ transactions[MaxEvalTxns] = NoRow

NextSummary ==
  \/ GetBudgetSummary
  \/ Respond

SpecSummary == SummaryInit /\ [][NextSummary]_vars

\* ------------------------------------------ every handler, by reference
\* all the handlers together, on requests that differ only in the caller and
\* in the rows they refer to
RefTxns == {d \in TxnInputs : d.amount = 1 /\ d.type = "EXPENSE"}
RefCategories == {c \in CategoryInputs : c.name = "Rent" /\ c.type = "EXPENSE"}
RefBudgets == {b \in BudgetInputs : b.wf /\ b.startDate = 1 /\ b.endDate = 1}
RefPatches ==
  {b \in BudgetPatches :
     b.wf /\ b.amount = Absent /\ b.period = "" /\ b.startDate = Absent
       /\ b.endDate = Absent}

PostTransactionRef ==
  /\ last = Idle
  /\ \E u \in Users, d \in RefTxns : TxnCreate(u, d, 0)

PutTransactionRef ==
  /\ last = Idle
  /\ \E u \in Users, id \in TxnIds, d \in RefTxns : TxnUpdate(u, id, d, 0)

DeleteTransactionRef ==
  /\ last = Idle
  /\ \E u \in Users, id \in TxnIds : TxnDelete(u, id, 0)

PostCategoryRef ==
  /\ last = Idle
  /\ \E u \in Users, c \in RefCategories : CategoryCreate(u, c)

PutCategoryRef ==
  /\ last = Idle
  /\ \E u \in Users, id \in CategoryIds, c \in RefCategories : CategoryUpdate(u, id, c)

PostBudgetRef ==
  /\ last = Idle
  /\ \E u \in Users, b \in RefBudgets : BudgetCreate(u, b)

PutBudgetRef ==
  /\ last = Idle
  /\ \E u \in Users, id \in BudgetIds, b \in RefPatches : BudgetUpdate(u, id, b)

NextRefs ==
  \/ PostTransactionRef
  \/ PutTransactionRef
  \/ DeleteTransactionRef
  \/ PutAccount
  \/ DeleteAccount
  \/ PostCategoryRef
  \/ PutCategoryRef
  \/ DeleteCategory
  \/ PostBudgetRef
  \/ PutBudgetRef
  \/ DeleteBudget
  \/ GetBudget
  \/ Respond

SpecRefs == Init /\ [][NextRefs]_vars

\* ------------------------------------------- concurrent budget creates
\* POST /api/budgets cut at its awaits: the category lookup and the overlap
\* query, then prisma.budget.create. The handler opens no database transaction
\* and the budgets table carries no constraint on windows.
RaceInputs == {b \in BudgetInputs : b.wf /\ b.startDate <= b.endDate /\ b.categoryId \in {0, 1}}

\* budgetData
BudgetData(u, b) ==
  [userId |-> u, amount |-> b.amount, period |-> b.period, categoryId |-> b.categoryId,
   startDate |-> b.startDate, endDate |-> b.endDate]

PendingBudgets ==
  Cardinality({p \in Procs : inflight[p] # Parked /\ inflight[p].op = "BUDGET"})

\* the reads: a request they reject is answered at once
ConcBudgetCheck(p, u, b) ==
  /\ inflight[p] = Parked
  /\ requests < MaxRequests
  /\ nextBudgetId + PendingBudgets <= MaxBudgets
  /\ requests' = requests + 1
  /\ inflight' = [inflight EXCEPT ![p] =
       IF BudgetPost(u, b).status = 201
         THEN InFlight("create", "BUDGET", u, 0, b, NoRow) ELSE Parked]
  /\ UNCHANGED <<accounts, opening, authVars, categoryVars, transactions, nextTxnId,
                 accountVars, budgetVars, last>>

\* prisma.budget.create, answered 201
ConcBudgetInsert(p) ==
  /\ inflight[p] # Parked
  /\ inflight[p].pc = "create"
  /\ budgets' = [budgets EXCEPT ![nextBudgetId] = BudgetData(inflight[p].userId, inflight[p].d)]
  /\ nextBudgetId' = nextBudgetId + 1
  /\ inflight' = [inflight EXCEPT ![p] = Parked]
  /\ UNCHANGED <<accounts, opening, authVars, categoryVars, transactions, nextTxnId,
                 accountVars, requests, last>>

BeginBudget == \E p \in Procs, u \in Users, b \in RaceInputs : ConcBudgetCheck(p, u, b)
InsertBudget == \E p \in Procs : ConcBudgetInsert(p)

NextBudgetRace == BeginBudget \/ InsertBudget

SpecBudgetRace == Init /\ [][NextBudgetRace]_vars

\* ------------------------------------------- registration and verification
\* verificationExpires.setHours(verificationExpires.getHours() + 24)
TokenHours == 24

\* defaultCategories of POST /api/auth/register
DefaultCategories ==
  {[name |-> "Salary", type |-> "INCOME"],
   [name |-> "Freelance", type |-> "INCOME"],
   [name |-> "Investment", type |-> "INCOME"],
   [name |-> "Other Income", type |-> "INCOME"],
   [name |-> "Food & Dining", type |-> "EXPENSE"],
   [name |-> "Transportation", type |-> "EXPENSE"],
   [name |-> "Shopping", type |-> "EXPENSE"],
   [name |-> "Entertainment", type |-> "EXPENSE"],
   [name |-> "Bills & Utilities", type |-> "EXPENSE"],
   [name |-> "Healthcare", type |-> "EXPENSE"],
   [name |-> "Education", type |-> "EXPENSE"],
   [name |-> "Travel", type |-> "EXPENSE"],
   [name |-> "Other Expenses", type |-> "EXPENSE"]}

\* data of prisma.category.createMany for the new user
DefaultRows(userId) ==
  {[name |-> c.name, type |-> c.type, userId |-> userId, isDefault |-> TRUE] :
     c \in DefaultCategories}

\* generateVerificationToken: 32 random bytes, taken as never drawn twice
generateVerificationToken == nextUserId

\* what transporter.sendMail may do
MailOutcomes == {"sent", "failed"}

\* sendVerificationEmail: TRUE when it throws
sendVerificationEmail(outcome, production) == outcome = "failed" /\ production

\* whether a throw of sendVerificationEmail reaches the handler's outer catch
MailEscapesUncaught(thrown) == thrown
MailEscapes(thrown) == FALSE

\* prisma.user.findUnique({ where: { email } })
FindByEmail(email) == {i \in UserIds : users[i] # NoUser /\ users[i].email = email}

AuthResult(status, error, id, us, cats) ==
  [status |-> status, error |-> error, id |-> id, users |-> us, registered |-> cats]

\* POST /api/auth/register; wf: name, email and password are given;
\* failAt: which write throws (1: user.create, 2: category.createMany, 0: none)
RegisterResult(wf, email, failAt, mail, production) ==
  IF ~wf THEN AuthResult(400, "Missing required fields", 0, users, registered)
  ELSE IF FindByEmail(email) # {}
    THEN AuthResult(400, "User already exists", 0, users, registered)
  ELSE IF failAt = 1 THEN AuthResult(500, InternalError, 0, users, registered)
  ELSE
    LET id == nextUserId
        created ==
          [users EXCEPT ![id] =
             [email |-> email, isEmailVerified |-> FALSE,
              emailVerificationToken |-> generateVerificationToken,
              emailVerificationExpires |-> clock + TokenHours,
              createdAt |-> clock]]
        seeded == [registered EXCEPT ![id] = DefaultRows(id)]
    IN IF failAt = 2 THEN AuthResult(500, InternalError, 0, created, registered)
       ELSE IF MailEscapes(sendVerificationEmail(mail, production))
         THEN AuthResult(500, InternalError, 0, created, seeded)
       ELSE AuthResult(201, "", id, created, seeded)

\* emailVerificationExpires: { gt: new Date() }
UnexpiredAlways(row) == TRUE
Unexpired(row) ==
  row.emailVerificationExpires # NoExpiry /\ row.emailVerificationExpires > clock

\* prisma.user.findFirst of GET /api/auth/verify-email
FindByToken(token) ==
  {i \in UserIds :
     /\ users[i] # NoUser
     /\ users[i].emailVerificationToken = token
     /\ Unexpired(users[i])}

\* GET /api/auth/verify-email?token=; failAt 1: prisma.user.update throws.
\* The welcome email is sent inside its own try/catch and changes nothing.
VerifyResult(token, failAt) ==
  IF token = NoToken
    THEN AuthResult(400, "Verification token is required", 0, users, registered)
  ELSE IF FindByToken(token) = {}
    THEN AuthResult(400, "Invalid or expired verification token", 0, users, registered)
  ELSE IF failAt = 1
    THEN AuthResult(500, "Internal server error during email verification", 0,
                    users, registered)
  ELSE
    LET id == CHOOSE i \in FindByToken(token) : \A j \in FindByToken(token) : i <= j
    IN AuthResult(200, "", id,
         [users EXCEPT ![id] =
            [@ EXCEPT !.isEmailVerified = TRUE, !.emailVerificationToken = NoToken,
                      !.emailVerificationExpires = NoExpiry]],
         registered)

AuthUnchanged ==
  UNCHANGED <<accounts, opening, categoryVars, transactions, nextTxnId, accountVars,
              budgetVars, concVars, clock>>

Register(wf, email, failAt, mail, production) ==
  /\ last = Idle
  /\ nextUserId <= MaxUsers
  /\ LET r == RegisterResult(wf, email, failAt, mail, production)
     IN /\ users' = r.users
        /\ registered' = r.registered
        /\ nextUserId' = IF r.users # users THEN nextUserId + 1 ELSE nextUserId
        /\ last' = [op |-> "register", userId |-> 0, status |-> r.status,
                    error |-> r.error, id |-> r.id,
                    thrown |-> sendVerificationEmail(mail, production)]
  /\ AuthUnchanged

VerifyEmail(token, failAt) ==
  /\ last = Idle
  /\ LET r == VerifyResult(token, failAt)
     IN /\ users' = r.users
        /\ last' = [op |-> "verifyEmail", userId |-> 0, status |-> r.status,
                    error |-> r.error, id |-> r.id, token |-> token]
  /\ UNCHANGED <<registered, nextUserId>>
  /\ AuthUnchanged

\* time passes between requests
Tick ==
  /\ last = Idle
  /\ clock + ClockStep <= MaxClock
  /\ clock' = clock + ClockStep
  /\ UNCHANGED <<accounts, opening, categoryVars, transactions, nextTxnId, accountVars,
                 budgetVars, concVars, users, nextUserId, registered, last>>

TokenInputs == 0..(MaxUsers + 1)

PostRegister ==
  /\ last = Idle
  /\ \E wf \in BOOLEAN, email \in Emails, failAt \in 0..2, mail \in MailOutcomes,
        production \in BOOLEAN :
       Register(wf, email, failAt, mail, production)

GetVerifyEmail ==
  /\ last = Idle
  /\ \E token \in TokenInputs, failAt \in 0..1 : VerifyEmail(token, failAt)

NextAuth == PostRegister \/ GetVerifyEmail \/ Tick \/ Respond

SpecAuth == Init /\ [][NextAuth]_vars

\* ================================================================= claims
Present(row) == row # NoRow

\* the row exists and its owner is the caller
Owned(table, ids, id, userId) ==
  id \in ids /\ table[id].userId = userId

\* the amounts of the stored transactions of the given types on account a
RECURSIVE Total(_, _, _, _)
Total(tx, a, types, n) ==
  IF n = 0 THEN 0
  ELSE (IF Present(tx[n]) /\ tx[n].accountId = a /\ tx[n].type \in types
          THEN tx[n].amount ELSE 0) + Total(tx, a, types, n - 1)

\* every account row but a's, and a's fields other than the balance, are the same
OnlyBalanceOf(A, before, after) ==
  /\ \A a \in AccountIds \ A : after[a] = before[a]
  /\ \A a \in A : [after[a] EXCEPT !.balance = 0] = [before[a] EXCEPT !.balance = 0]

\* C1: at rest every account's balance is its opening balance plus its INCOME
\* transactions minus its EXPENSE transactions (the claim as stated).
C1_BalanceInvariant ==
  last = Idle =>
    \A a \in AccountIds :
      accounts[a].balance =
        opening[a] + Total(transactions, a, {"INCOME"}, MaxTxns)
                   - Total(transactions, a, {"EXPENSE"}, MaxTxns)

\* C2: whenever no request is in flight, every balance is the one a serial
\* execution gives: the opening balance plus the signed sum of the
\* transactions that remain.
C2_SerialBalance ==
  (\A p \in Procs : inflight[p] = Parked) =>
    \A a \in AccountIds :
      accounts[a].balance - opening[a] =
        Total(transactions, a, {"INCOME"}, MaxTxns)
          - Total(transactions, a, TxnTypes \ {"INCOME"}, MaxTxns)

\* C3: a successful create inserts exactly the one new row and moves only the
\* named account's balance: +amount for INCOME, -amount for EXPENSE and TRANSFER.
C3_CreateEffect ==
  (last = Idle /\ nextTxnId \in TxnIds) =>
    \A u \in Users, d \in TxnInputs :
      LET r == POST(u, d, 0)
          delta == IF d.type = "INCOME" THEN d.amount
                   ELSE IF d.type \in {"EXPENSE", "TRANSFER"} THEN 0 - d.amount
                   ELSE 0
      IN  r.status = 201 =>
            /\ r.id = nextTxnId
            /\ ~Present(transactions[r.id])
            /\ r.db.transactions = [transactions EXCEPT ![r.id] =
                 [userId |-> u, amount |-> d.amount, type |-> d.type,
                  accountId |-> d.accountId, categoryId |-> d.categoryId,
                  date |-> d.date]]
            /\ r.db.accounts[d.accountId].balance =
                 accounts[d.accountId].balance + delta
            /\ OnlyBalanceOf({d.accountId}, accounts, r.db.accounts)

C3_Witness ==
  /\ last.op = "txnCreate" /\ last.status = 201
  /\ transactions[last.id].type = "TRANSFER"
  /\ accounts[transactions[last.id].accountId].balance < OpeningBalance

\* the scenario of the specification: 1,000,000 less an EXPENSE of 150,000 is
\* 850,000; the expense is updated to 50,000
ScenarioDb ==
  [accounts |-> [a \in {1} |-> [userId |-> 1, balance |-> 850000, isActive |-> TRUE]],
   transactions |-> [t \in {1} |->
      [userId |-> 1, amount |-> 150000, type |-> "EXPENSE", accountId |-> 1,
       categoryId |-> 2, date |-> 1]]]
ScenarioAfterUpdate ==
  PutUnit(ScenarioDb, ScenarioDb.transactions[1], 1,
          [amount |-> 50000, type |-> "EXPENSE", accountId |-> 1,
           categoryId |-> 2, date |-> 1], 0).db

\* C4: a successful update takes the old effect off the old account and puts
\* the new effect on the new account; no third account changes.
C4_UpdateEffect ==
  /\ ScenarioAfterUpdate.accounts[1].balance = 950000
  /\ last = Idle =>
       \A u \in Users, id \in TxnIds, d \in TxnInputs :
         LET r == PUT(u, id, d, 0)
             old == transactions[id]
             oldDelta == IF old.type = "INCOME" THEN old.amount ELSE 0 - old.amount
             newDelta == IF d.type = "INCOME" THEN d.amount ELSE 0 - d.amount
             before(a) == accounts[a].balance
             after(a) == r.db.accounts[a].balance
         IN  r.status = 200 =>
               /\ IF old.accountId = d.accountId
                    THEN after(d.accountId) = before(d.accountId) + newDelta - oldDelta
                    ELSE /\ after(old.accountId) = before(old.accountId) - oldDelta
                         /\ after(d.accountId) = before(d.accountId) + newDelta
               /\ OnlyBalanceOf({old.accountId, d.accountId}, accounts, r.db.accounts)
               /\ r.db.transactions = [transactions EXCEPT ![id] =
                    [userId |-> old.userId, amount |-> d.amount, type |-> d.type,
                     accountId |-> d.accountId, categoryId |-> d.categoryId,
                     date |-> d.date]]

\* an INCOME became an EXPENSE on another account
C4_Witness ==
  /\ last.op = "txnUpdate" /\ last.status = 200
  /\ transactions[last.id].type = "EXPENSE"
  /\ transactions[last.id].accountId = 2
  /\ accounts[1].balance = OpeningBalance
  /\ accounts[2].balance < OpeningBalance
  /\ \A t \in TxnIds \ {last.id} : ~Present(transactions[t])

\* C5: a successful delete removes the row and takes its effect off its
\* account: -amount for INCOME, +amount otherwise; nothing else changes.
C5_DeleteEffect ==
  last = Idle =>
    \A u \in Users, id \in TxnIds :
      LET r == DELETE(u, id, 0)
          old == transactions[id]
      IN  r.status = 200 =>
            /\ Present(old)
            /\ r.db.transactions = [transactions EXCEPT ![id] = NoRow]
            /\ r.db.accounts[old.accountId].balance =
                 accounts[old.accountId].balance +
                   (IF old.type = "INCOME" THEN 0 - old.amount ELSE old.amount)
            /\ OnlyBalanceOf({old.accountId}, accounts, r.db.accounts)

\* one of two stored transactions was deleted, the other is still there
C5_Witness ==
  /\ last.op = "txnDelete" /\ last.status = 200
  /\ ~Present(transactions[last.id])
  /\ \E t \in TxnIds : Present(transactions[t])

\* the ledger as the code keeps it: TRANSFER is a deduction, as EXPENSE is
LedgerConsistent ==
  \A a \in AccountIds :
    accounts[a].balance =
      opening[a] + Total(transactions, a, {"INCOME"}, MaxTxns)
                 - Total(transactions, a, {"EXPENSE", "TRANSFER"}, MaxTxns)

\* C6: a statement failing inside the atomic unit of create, update or delete
\* leaves rows and balances as they were and answers an error; no state with
\* half of a unit is ever stored.
C6_AllOrNothing ==
  /\ LedgerConsistent
  /\ last = Idle =>
       \A u \in Users :
         /\ \A d \in TxnInputs, f \in 1..2 :
              (nextTxnId \in TxnIds /\ Validate(u, d) = Pass) =>
                LET r == POST(u, d, f) IN r.status = 500 /\ r.db = Db
         /\ \A id \in TxnIds, d \in TxnInputs, f \in 1..3 :
              (Owned(transactions, TxnIds, id, u) /\ Validate(u, d) = Pass) =>
                LET r == PUT(u, id, d, f) IN r.status = 500 /\ r.db = Db
         /\ \A id \in TxnIds, f \in 1..2 :
              Owned(transactions, TxnIds, id, u) =>
                LET r == DELETE(u, id, f) IN r.status = 500 /\ r.db = Db

C6_Witness ==
  /\ last.op = "txnUpdate" /\ last.status = 500
  /\ \E t \in TxnIds : Present(transactions[t])

\* the category named by the request exists and has the other direction
Mismatch(d) ==
  /\ d.categoryId \in CategoryIds
  /\ Present(categories[d.categoryId])
  /\ \/ d.type = "INCOME" /\ categories[d.categoryId].type = "EXPENSE"
     \/ d.type = "EXPENSE" /\ categories[d.categoryId].type = "INCOME"

\* the request's fields other than the type/category pairing are acceptable
FieldsOk(d) == d.amount > 0 /\ d.type \in TxnTypes
OwnsBoth(u, d) ==
  /\ Owned(accounts, AccountIds, d.accountId, u)
  /\ Owned(categories, CategoryIds, d.categoryId, u)

Rejected(r) == r.status \in {400, 404} /\ r.db = Db

\* C7: a create or update pairing INCOME with an EXPENSE category, or EXPENSE
\* with an INCOME category, is rejected and changes nothing; the answer is 400
\* (invalid input) whenever nothing else is wrong with the request.
C7_CategoryTypeMismatch ==
  last = Idle =>
    \A u \in Users, d \in TxnInputs :
      Mismatch(d) =>
        /\ nextTxnId \in TxnIds =>
             LET r == POST(u, d, 0)
             IN  /\ Rejected(r)
                 /\ (FieldsOk(d) /\ OwnsBoth(u, d)) => r.status = 400
        /\ \A id \in TxnIds :
             LET r == PUT(u, id, d, 0)
             IN  /\ Rejected(r)
                 /\ (Owned(transactions, TxnIds, id, u)
                       /\ FieldsOk(d) /\ OwnsBoth(u, d)) => r.status = 400

C7_Witness ==
  /\ last.op = "txnUpdate" /\ last.status = 400
  /\ last.error = "Category type does not match transaction type"

\* C8: a create or update with amount <= 0 or an unknown type is rejected as
\* invalid input (400; an update of a transaction the caller does not have is
\* answered 404) and changes nothing.
C8_InvalidInput ==
  last = Idle =>
    \A u \in Users, d \in TxnInputs :
      (d.amount <= 0 \/ d.type \notin TxnTypes) =>
        /\ nextTxnId \in TxnIds =>
             LET r == POST(u, d, 0) IN r.status = 400 /\ r.db = Db
        /\ \A id \in TxnIds :
             LET r == PUT(u, id, d, 0)
             IN  /\ r.db = Db
                 /\ r.status = IF Owned(transactions, TxnIds, id, u)
                                 THEN 400 ELSE 404

C8_Witness ==
  /\ last.op = "txnCreate" /\ last.status = 400
  /\ last.error \in {"Amount must be positive", "Invalid transaction type"}

\* C9: a create or update naming an account or category that does not exist
\* or belongs to another user is rejected and changes no row and no balance of
\* any user; the answer is 404 (not found) whenever the fields are acceptable.
C9_NotFound ==
  last = Idle =>
    \A u \in Users, d \in TxnInputs :
      ~OwnsBoth(u, d) =>
        /\ nextTxnId \in TxnIds =>
             LET r == POST(u, d, 0)
             IN  /\ Rejected(r)
                 /\ FieldsOk(d) => r.status = 404
        /\ \A id \in TxnIds :
             LET r == PUT(u, id, d, 0)
             IN  /\ Rejected(r)
                 /\ FieldsOk(d) => r.status = 404

C9_Witness ==
  /\ last.op = "txnCreate" /\ last.status = 404
  /\ last.error \in {"Account not found", "Category not found"}
  /\ \E t \in TxnIds : Present(transactions[t])

\* the windows of two budgets share a day (both ends inclusive)
Intersect(b1, b2) ==
  \E day \in Dates :
    /\ b1.startDate <= day /\ day <= b1.endDate
    /\ b2.startDate <= day /\ day <= b2.endDate

\* C10: no two budgets of one owner and one category scope (null matching
\* null) have windows that intersect.
C10_NoOverlap ==
  \A i, j \in BudgetIds :
    (/\ i # j
     /\ Present(budgets[i]) /\ Present(budgets[j])
     /\ budgets[i].userId = budgets[j].userId
     /\ budgets[i].categoryId = budgets[j].categoryId)
      => ~Intersect(budgets[i], budgets[j])

\* the budget of the specification's example, in days of the year 2025:
\* A = 15 June .. 15 July
ScenarioA == [startDate |-> 166, endDate |-> 196]

\* a stored budget of the caller with the request's category scope whose window
\* shares a day with the request's
Clashes(u, b) ==
  \E i \in BudgetIds :
    /\ Present(budgets[i])
    /\ budgets[i].userId = u
    /\ budgets[i].categoryId = b.categoryId
    /\ Intersect(budgets[i], b)

\* C11: a budget create whose window shares a day (both ends inclusive) with a
\* stored budget of the same owner and category scope (null with null) is
\* rejected and writes no row; the answer is the overlap error when the body
\* and the category are acceptable.  B = 1..30 June and C = 1..31 July are
\* both rejected against A, and so is a window starting the day A ends.
C11_CreateRejectsOverlap ==
  /\ OverlapQuery(ScenarioA, 152, 181)
  /\ OverlapQuery(ScenarioA, 182, 212)
  /\ OverlapQuery(ScenarioA, 196, 212)
  /\ (last = Idle /\ nextBudgetId \in BudgetIds) =>
       \A u \in Users, b \in BudgetInputs :
         Clashes(u, b) =>
           LET r == BudgetPost(u, b)
           IN  /\ r.status \in {400, 404}
               /\ r.db = budgets
               /\ (b.wf /\ (b.categoryId = 0 \/ Owned(categories, CategoryIds, b.categoryId, u)))
                    => (r.status = 400 /\
                        r.error = "Budget untuk periode dan kategori ini sudah ada")

C11_Witness ==
  /\ last.op = "budgetCreate" /\ last.status = 400
  /\ last.error = "Budget untuk periode dan kategori ini sudah ada"
  /\ \E i \in BudgetIds :
       Present(budgets[i]) /\ budgets[i].userId = last.userId
         /\ budgets[i].startDate < budgets[i].endDate

\* C12: for a stored window s1..e1 and a new window s2..e2, both with start <=
\* end, the three-way OR of the overlap query is true exactly when
\* s1 <= e2 and s2 <= e1.
C12_OverlapEquivalence ==
  \A i \in BudgetIds, s2 \in Dates, e2 \in Dates :
    (Present(budgets[i]) /\ budgets[i].startDate <= budgets[i].endDate /\ s2 <= e2) =>
      (OverlapQuery(budgets[i], s2, e2)
         <=> (budgets[i].startDate <= e2 /\ s2 <= budgets[i].endDate))

\* a stored one-day window in the middle of the range: a new window around it
\* is seen by the third disjunct only
C12_Witness ==
  \E i \in BudgetIds :
    /\ Present(budgets[i])
    /\ budgets[i].startDate = budgets[i].endDate
    /\ \E s2 \in Dates, e2 \in Dates :
         s2 < budgets[i].startDate /\ budgets[i].endDate < e2

\* C18: account update and account delete leave every balance as it was,
\* whatever balance the request body carries.
C18_BalanceReadOnly ==
  last = Idle =>
    \A u \in Users, id \in AccountRefs :
      /\ \A wf \in BOOLEAN, hasBalance \in BOOLEAN, balance \in BalanceInputs :
           \A a \in AccountIds :
             AccountPut(u, id, wf, hasBalance, balance).db.accounts[a].balance
               = accounts[a].balance
      /\ \A a \in AccountIds :
           AccountDel(u, id).db.accounts[a].balance = accounts[a].balance

\* C19: every stored INCOME transaction references a category of direction
\* INCOME and every stored EXPENSE transaction one of direction EXPENSE.
C19_DirectionInvariant ==
  \A t \in TxnIds :
    (Present(transactions[t]) /\ transactions[t].type \in {"INCOME", "EXPENSE"}) =>
      /\ Present(categories[transactions[t].categoryId])
      /\ categories[transactions[t].categoryId].type = transactions[t].type

\* C20: the categories seeded at registration carry the default flag and stay
\* exactly as seeded; category update and category delete of a category with
\* the default flag are rejected and change no category.
C20_DefaultsFrozen ==
  /\ \A c \in SeededCategoryIds :
       categories[c] = SeededCategory(c) /\ categories[c].isDefault
  /\ last = Idle =>
       \A u \in Users, id \in CategoryIds :
         (Present(categories[id]) /\ categories[id].isDefault) =>
           /\ \A c \in CategoryInputs :
                LET r == CategoryPut(u, id, c)
                IN  r.status \in {400, 404} /\ r.db = categories
           /\ LET r == CategoryDel(u, id)
              IN  r.status \in {400, 404} /\ r.db = categories

\* the owner's request to edit a seeded category was refused, while a category
\* of their own making exists
C20_Witness ==
  /\ last.op = "categoryUpdate" /\ last.status = 400
  /\ last.error = "Cannot edit default categories"
  /\ \E c \in CategoryIds \ SeededCategoryIds : Present(categories[c])

\* the transactions a budget counts: the owner's EXPENSE transactions dated
\* from startDate to endDate inclusive, of the budget's category if it has one
Counted(budget) ==
  {t \in DOMAIN transactions :
     /\ Present(transactions[t])
     /\ transactions[t].userId = budget.userId
     /\ transactions[t].type = "EXPENSE"
     /\ budget.startDate <= transactions[t].date
     /\ transactions[t].date <= budget.endDate
     /\ (budget.categoryId = 0 \/ transactions[t].categoryId = budget.categoryId)}

\* their amounts added up as JavaScript numbers, in the order rows
RECURSIVE AddUp(_, _)
AddUp(rows, n) ==
  IF n = 0 THEN Zero
  ELSE Plus(AddUp(rows, n - 1), Number(transactions[rows[n]].amount))

\* the sums of the counted amounts, one for every order of adding them
CountedSums(budget) ==
  {AddUp(rows, Cardinality(Counted(budget))) : rows \in Orderings(Counted(budget))}

\* what the three endpoints may report for budget b to its owner
Reported(b) ==
  ListValues(budgets[b].userId, b) \cup DetailValues(budgets[b].userId, b)
    \cup SummaryValues(budgets[b].userId, b)

AtTenPercent ==
  {ListSpending(Number(100000), Number(90000)),
   DetailSpending(Number(100000), Number(90000)),
   SummarySpending(Number(100000), Number(90000))}
JustOver ==
  {ListSpending(Number(100000), Number(100001)),
   DetailSpending(Number(100000), Number(100001)),
   SummarySpending(Number(100000), Number(100001))}

\* the status the rule gives: remaining < 0, else remaining < amount * 0.1
RuleStatus(amount, remaining) ==
  IF remaining.m # <<>> /\ remaining.neg THEN "overbudget"
  ELSE IF Less(remaining, Times(amount, Number(10))) THEN "warning"
  ELSE "good"

\* C14: for every evaluated budget, remaining = amount - totalSpent and status
\* is 'overbudget' if remaining < 0, else 'warning' if remaining < amount * 0.1,
\* else 'good'; 1000 with 900 spent leaves 100, exactly 10%, which is 'good',
\* and 1000 with 1000.01 spent is 'overbudget'.
C14_Status ==
  /\ \A e \in AtTenPercent : e.remaining = Number(10000) /\ e.status = "good"
  /\ \A e \in JustOver : e.remaining.neg /\ e.status = "overbudget"
  /\ last = Idle =>
       \A b \in BudgetIds :
         Present(budgets[b]) =>
           \A e \in Reported(b) :
             /\ e.amount = Number(budgets[b].amount)
             /\ e.remaining = Minus(e.amount, e.totalSpent)
             /\ e.status = RuleStatus(e.amount, e.remaining)

\* the list has evaluated one budget as 'warning' and another as 'overbudget'
C14_Witness ==
  /\ last.op = "budgetList"
  /\ \E b1, b2 \in last.shown :
       /\ \E e \in ListValues(last.userId, b1) : e.status = "warning"
       /\ \E e \in ListValues(last.userId, b2) : e.status = "overbudget"

\* C15: for the same budget and the same stored transactions, the list view,
\* the detail view and the summary view report identical totalSpent,
\* remaining, percentageUsed (2 decimals) and status.
C15_SameEverywhere ==
  last = Idle =>
    \A b \in BudgetIds :
      Present(budgets[b]) =>
        \A l \in ListValues(budgets[b].userId, b),
           d \in DetailValues(budgets[b].userId, b),
           s \in SummaryValues(budgets[b].userId, b) :
          /\ l.totalSpent = d.totalSpent /\ d.totalSpent = s.totalSpent
          /\ l.remaining = d.remaining /\ d.remaining = s.remaining
          /\ l.status = d.status /\ d.status = s.status
          /\ ListPercentageUsed(l) = DetailPercentageUsed(d)
          /\ DetailPercentageUsed(d) = SummaryPercentageUsed(s)

\* the values of field f of the evaluated budgets bl added up as JavaScript
\* numbers, in the order rows
RECURSIVE AddField(_, _, _, _)
AddField(bl, f, rows, n) ==
  IF n = 0 THEN Zero ELSE Plus(AddField(bl, f, rows, n - 1), bl[rows[n]][f])

\* the sums of field f over the evaluated budgets, one for every order
FieldSums(bl, f) ==
  {AddField(bl, f, rows, Len(bl)) : rows \in Orderings(DOMAIN bl)}

\* totalSpent / totalBudgetAmount * 100 (0 if that total is 0), to the two
\* decimals the response carries
PortfolioPercentage(totalSpent, totalBudgetAmount) ==
  IF totalBudgetAmount.m = <<>> THEN Zero
  ELSE Over(MathRound(Times(Times(Over(totalSpent, totalBudgetAmount), FromInt(100)),
                            FromInt(100))),
            FromInt(100))

\* the claim about one summary response: its overview ov for the evaluated
\* active budgets bl
PortfolioTotals(bl, ov) ==
  /\ ov.totalBudgetAmount \in FieldSums(bl, "amount")
  /\ ov.totalSpent \in FieldSums(bl, "totalSpent")
  /\ ov.totalRemaining = Minus(ov.totalBudgetAmount, ov.totalSpent)
  /\ ov.totalRemaining \in FieldSums(bl, "remaining")
  /\ OverallPercentageUsed(ov) = PortfolioPercentage(ov.totalSpent, ov.totalBudgetAmount)
  /\ \A st \in {"good", "warning", "overbudget"} :
       ov[st] = Cardinality({i \in DOMAIN bl : bl[i].status = st})

\* C16: over the active budgets of the requested period (startDate <= now <=
\* endDate), the summary's totalBudgetAmount is the sum of their amounts,
\* totalSpent the sum of their totalSpent, totalRemaining is totalBudgetAmount -
\* totalSpent and equals the sum of their remaining, overallPercentageUsed is
\* totalSpent / totalBudgetAmount * 100 (0 if that total is 0), and
\* budgetsByStatus counts the active budgets of each status.
C16_Portfolio ==
  last = Idle =>
    \A u \in Users, q \in SummaryQueries :
      \A bl \in SummaryLists(u, q) :
        /\ {budgets[b] : b \in ActiveBudgets(u, q)}
             = {r \in {budgets[b] : b \in BudgetIds} :
                  /\ Present(r)
                  /\ r.userId = u
                  /\ r.period = (IF q.period = "" THEN "MONTHLY" ELSE q.period)
                  /\ r.startDate <= q.now
                  /\ q.now <= r.endDate}
        /\ Len(bl) = Cardinality(ActiveBudgets(u, q))
        /\ PortfolioTotals(bl, SummaryOverview(bl))

\* how many times the recommendation (type, title) is in recs
Emitted(recs, type, title) ==
  Cardinality({i \in DOMAIN recs : recs[i] = [type |-> type, title |-> title]})

\* the overall percentage of the arguments of generateRecommendations
Percentage(totalSpent, totalBudget) ==
  IF totalBudget.m # <<>> /\ ~totalBudget.neg
    THEN Times(Over(totalSpent, totalBudget), FromInt(100))
    ELSE Zero

Count(condition) == IF condition THEN 1 ELSE 0

\* the rules for the recommendations recs of the evaluated budgets bl with
\* overall percentage p
Emits(bl, recs, p) ==
  /\ Emitted(recs, "warning", "Budget Terlampaui")
       = Count(\E i \in DOMAIN bl : bl[i].status = "overbudget")
  /\ Emitted(recs, "info", "Mendekati Batas Budget")
       = Count(\E i \in DOMAIN bl : bl[i].status = "warning")
  /\ Emitted(recs, "warning", "Total Pengeluaran Tinggi") = Count(Less(FromInt(90), p))
  /\ Emitted(recs, "success", "Pengelolaan Budget Baik")
       = Count(~Less(FromInt(90), p) /\ Less(p, FromInt(50)))
  /\ Emitted(recs, "info", "Buat Budget Pertama") = Count(Len(bl) = 0)
  /\ Len(recs) = Emitted(recs, "warning", "Budget Terlampaui")
                   + Emitted(recs, "info", "Mendekati Batas Budget")
                   + Emitted(recs, "warning", "Total Pengeluaran Tinggi")
                   + Emitted(recs, "success", "Pengelolaan Budget Baik")
                   + Emitted(recs, "info", "Buat Budget Pertama")

\* the recommendations of every summary the store allows satisfy P
EverySummary(P(_, _, _)) ==
  last = Idle =>
    \A u \in Users, q \in SummaryQueries :
      \A bl \in SummaryLists(u, q) :
        P(bl, SummaryRecommendations(bl, SummaryOverview(bl)),
          Percentage(SummaryOverview(bl).totalSpent, SummaryOverview(bl).totalBudgetAmount))

AsClaimed(bl, recs, p) ==
  /\ Emits(bl, recs, p)
  /\ Len(bl) = 0 => recs = <<[type |-> "info", title |-> "Buat Budget Pertama"]>>

AsAmended(bl, recs, p) ==
  /\ Emits(bl, recs, p)
  /\ Len(bl) = 0 => recs = <<[type |-> "success", title |-> "Pengelolaan Budget Baik"],
                            [type |-> "info", title |-> "Buat Budget Pertama"]>>

\* C17 as stated: generateRecommendations emits one warning iff a budget is
\* overbudget, one info iff a budget has status warning, one high-spending
\* warning iff the overall percentage is > 90, else one success iff it is < 50,
\* and one create-first-budget info iff there are no active budgets; with no
\* active budgets that info prompt is the only recommendation.
C17_OnlyThePrompt == EverySummary(AsClaimed)

\* C17 amended: the same rules, but with no active budgets the overall
\* percentage is 0, so the success recommendation is emitted as well, followed
\* by the create-first-budget info prompt.
C17_Recommendations == EverySummary(AsAmended)

\* a summary with no active budget has been answered
C17_Witness ==
  /\ last.op = "budgetSummary"
  /\ last.status = 200
  /\ last.shown = {}

\* owner u has a category other than id with this name
Duplicate(u, name, id) ==
  \E c \in CategoryIds :
    c # id /\ Present(categories[c]) /\ categories[c].userId = u
      /\ categories[c].name = name

\* a create or update body with a name and a direction
WellFormed(c) == c.name # "" /\ c.type \in {"INCOME", "EXPENSE"}

\* C21: no owner ever has two categories with the same name; a create, or an
\* update of an own editable category, that would give the owner a second
\* category with an existing name is answered 409 Conflict and changes no
\* category; a name another owner uses is free for this owner.
C21_UniqueNames ==
  /\ \A c1, c2 \in CategoryIds :
       (c1 # c2 /\ Present(categories[c1]) /\ Present(categories[c2])
          /\ categories[c1].userId = categories[c2].userId)
         => categories[c1].name # categories[c2].name
  /\ (last = Idle /\ nextCategoryId <= MaxCategories) =>
       \A u \in Users, c \in CategoryInputs :
         WellFormed(c) =>
           /\ Duplicate(u, c.name, 0) =>
                /\ CategoryPost(u, c).status = 409
                /\ CategoryPost(u, c).db = categories
           /\ ~Duplicate(u, c.name, 0) =>
                /\ CategoryPost(u, c).status = 201
                /\ CategoryPost(u, c).db[nextCategoryId].name = c.name
                /\ CategoryPost(u, c).db[nextCategoryId].userId = u
  /\ last = Idle =>
       \A u \in Users, id \in CategoryIds, c \in CategoryInputs :
         (WellFormed(c) /\ Owned(categories, CategoryIds, id, u)
            /\ ~categories[id].isDefault) =>
           /\ Duplicate(u, c.name, id) =>
                /\ CategoryPut(u, id, c).status = 409
                /\ CategoryPut(u, id, c).db = categories
           /\ ~Duplicate(u, c.name, id) => CategoryPut(u, id, c).status = 200

\* a create of a name that another owner already used has succeeded, and the
\* creator now holds that name once
C21_Witness ==
  /\ last.op = "categoryCreate"
  /\ last.status = 201
  /\ \E c \in CategoryIds :
       /\ Present(categories[c])
       /\ categories[c].userId # last.userId
       /\ categories[c].name = categories[last.id].name

\* C22: a successful update that keeps the amount, type and account of the
\* stored transaction leaves the balance of every account as it was.
C22_NoOpUpdate ==
  [][(/\ last'.op = "txnUpdate"
      /\ last'.status = 200
      /\ transactions'[last'.id].amount = transactions[last'.id].amount
      /\ transactions'[last'.id].type = transactions[last'.id].type
      /\ transactions'[last'.id].accountId = transactions[last'.id].accountId)
       => \A a \in AccountIds : accounts'[a].balance = accounts[a].balance]_vars

\* such an update of an INCOME transaction has succeeded
C22_Witness ==
  /\ last.op = "txnUpdate"
  /\ last.status = 200
  /\ transactions[last.id].type = "INCOME"

\* C23: deleting a transaction and then creating one with the same amount, type
\* and account leaves every account with the balance it had before the delete.
C23_DeleteRecreate ==
  (last = Idle /\ nextTxnId <= MaxTxns) =>
    \A u \in Users, id \in TxnIds, d \in TxnInputs :
      LET deleted == DELETE(u, id, 0)
          created == PostUnit(deleted.db, u, d, nextTxnId, 0)
      IN  (/\ Owned(transactions, TxnIds, id, u)
           /\ deleted.status = 200
           /\ d.amount = transactions[id].amount
           /\ d.type = transactions[id].type
           /\ d.accountId = transactions[id].accountId
           /\ Validate(u, d) = Pass) =>
            /\ created.status = 201
            /\ ~Present(created.db.transactions[id])
            /\ Present(created.db.transactions[nextTxnId])
            /\ \A a \in AccountIds :
                 created.db.accounts[a].balance = accounts[a].balance

\* transaction 1 has been deleted and transaction 2 then created on the same
\* account; the account carries the effect of one transaction
C23_Witness ==
  /\ last.op = "txnCreate"
  /\ last.status = 201
  /\ last.id = 2
  /\ ~Present(transactions[1])
  /\ transactions[2].type = "EXPENSE"
  /\ accounts[transactions[2].accountId].balance = OpeningBalance - transactions[2].amount

\* a request of caller u left the rows of the other owners as they were, and
\* every row it added belongs to u
Kept(u, ids, before, after) ==
  \A i \in ids :
    /\ (Present(before[i]) /\ before[i].userId # u) => after[i] = before[i]
    /\ (~Present(before[i]) /\ Present(after[i])) => after[i].userId = u

\* row id of the table exists and belongs to somebody else
Foreign(table, ids, id, u) ==
  id \in ids /\ Present(table[id]) /\ table[id].userId # u

Succeeded(r) == r.status \in {200, 201}

\* what a ledger or account request of u may do to the store
LedgerKept(u, r) ==
  /\ Kept(u, AccountIds, accounts, r.db.accounts)
  /\ Kept(u, TxnIds, transactions, r.db.transactions)

\* a body that refers to an account or a category of another owner
ForeignBody(u, d) ==
  \/ Foreign(accounts, AccountIds, d.accountId, u)
  \/ Foreign(categories, CategoryIds, d.categoryId, u)

\* every stored reference stays inside its owner's data
ReferencesOwned ==
  /\ \A t \in TxnIds :
       Present(transactions[t]) =>
         /\ Owned(accounts, AccountIds, transactions[t].accountId, transactions[t].userId)
         /\ Owned(categories, CategoryIds, transactions[t].categoryId,
                  transactions[t].userId)
  /\ \A b \in BudgetIds :
       (Present(budgets[b]) /\ budgets[b].categoryId # 0) =>
         Owned(categories, CategoryIds, budgets[b].categoryId, budgets[b].userId)

LedgerIsolated(u) ==
  /\ nextTxnId <= MaxTxns =>
       \A d \in RefTxns :
         /\ LedgerKept(u, POST(u, d, 0))
         /\ ForeignBody(u, d) => POST(u, d, 0).status = 404
  /\ \A id \in TxnIds, d \in RefTxns :
       /\ LedgerKept(u, PUT(u, id, d, 0))
       /\ Foreign(transactions, TxnIds, id, u) => PUT(u, id, d, 0).status = 404
       /\ (Owned(transactions, TxnIds, id, u) /\ ForeignBody(u, d)) =>
            PUT(u, id, d, 0).status = 404
  /\ \A id \in TxnIds :
       /\ LedgerKept(u, DELETE(u, id, 0))
       /\ Foreign(transactions, TxnIds, id, u) => DELETE(u, id, 0).status = 404

AccountsIsolated(u) ==
  \A id \in AccountIds :
    /\ \A hb \in BOOLEAN, b \in BalanceInputs :
         /\ LedgerKept(u, AccountPut(u, id, TRUE, hb, b))
         /\ Foreign(accounts, AccountIds, id, u) =>
              AccountPut(u, id, TRUE, hb, b).status = 404
    /\ LedgerKept(u, AccountDel(u, id))
    /\ Foreign(accounts, AccountIds, id, u) => AccountDel(u, id).status = 404

CategoriesIsolated(u) ==
  /\ nextCategoryId <= MaxCategories =>
       \A c \in RefCategories :
         Kept(u, CategoryIds, categories, CategoryPost(u, c).db)
  /\ \A id \in CategoryIds :
       /\ \A c \in RefCategories :
            /\ Kept(u, CategoryIds, categories, CategoryPut(u, id, c).db)
            /\ Foreign(categories, CategoryIds, id, u) =>
                 CategoryPut(u, id, c).status = 404
       /\ Kept(u, CategoryIds, categories, CategoryDel(u, id).db)
       /\ Succeeded(CategoryDel(u, id)) => Kept(u, BudgetIds, budgets, CascadeBudgets(id))
       /\ Foreign(categories, CategoryIds, id, u) => CategoryDel(u, id).status = 404

BudgetsIsolated(u) ==
  /\ nextBudgetId <= MaxBudgets =>
       \A b \in RefBudgets :
         /\ Kept(u, BudgetIds, budgets, BudgetPost(u, b).db)
         /\ Foreign(categories, CategoryIds, b.categoryId, u) =>
              BudgetPost(u, b).status = 404
  /\ \A id \in BudgetIds :
       /\ \A b \in RefPatches :
            /\ Kept(u, BudgetIds, budgets, BudgetPut(u, id, b).db)
            /\ Foreign(budgets, BudgetIds, id, u) => BudgetPut(u, id, b).status = 404
            /\ (Owned(budgets, BudgetIds, id, u)
                  /\ Foreign(categories, CategoryIds, b.categoryId, u)) =>
                 BudgetPut(u, id, b).status = 404
       /\ Kept(u, BudgetIds, budgets, BudgetDel(u, id).db)
       /\ Foreign(budgets, BudgetIds, id, u) => BudgetDel(u, id).status = 404

EmailFree(email) == \A i \in UserIds : users[i] = NoUser \/ users[i].email # email

\* the row and the categories a registration of email leaves for user id
RegisteredAs(us, cats, id, email) ==
  /\ us[id] # NoUser
  /\ us[id].email = email
  /\ us[id].isEmailVerified = FALSE
  /\ us[id].emailVerificationToken # NoToken
  /\ us[id].emailVerificationExpires = clock + TokenHours
  /\ cats[id] = {[name |-> c.name, type |-> c.type, userId |-> id, isDefault |-> TRUE] :
                   c \in DefaultCategories}
  /\ Cardinality(cats[id]) = 13

\* C25: a registration whose verification email cannot be sent still succeeds:
\* it answers 201 and the unverified user row, with a token that expires 24
\* hours later, and the default categories stay stored.
C25_MailFailure ==
  /\ (last.op = "register" /\ last.thrown) =>
       /\ last.status \in {400, 500} => last.id = 0
       /\ last.status = 201 => RegisteredAs(users, registered, last.id, users[last.id].email)
  /\ (last = Idle /\ nextUserId <= MaxUsers) =>
       \A email \in Emails, production \in BOOLEAN :
         LET r == RegisterResult(TRUE, email, 0, "failed", production)
         IN EmailFree(email) =>
              /\ r.status = 201
              /\ r.id = nextUserId
              /\ RegisteredAs(r.users, r.registered, r.id, email)
              /\ \A i \in UserIds \ {r.id} :
                   r.users[i] = users[i] /\ r.registered[i] = registered[i]

\* a registration was answered 201 although the verification email threw
C25_Witness ==
  /\ last.op = "register"
  /\ last.thrown
  /\ last.status = 201
  /\ users[last.id].isEmailVerified = FALSE
  /\ registered[last.id] # {}

Verified(us, i) == us[i] # NoUser /\ us[i].isEmailVerified

\* the users a request with this token may verify now
Holders(token) ==
  {i \in UserIds :
     /\ users[i] # NoUser
     /\ token # NoToken
     /\ users[i].emailVerificationToken = token
     /\ users[i].emailVerificationExpires # NoExpiry
     /\ users[i].emailVerificationExpires > clock}

VerifyAnswers ==
  \A token \in TokenInputs :
    LET r == VerifyResult(token, 0)
    IN /\ Holders(token) = {} => (r.status = 400 /\ r.users = users)
       /\ Holders(token) # {} =>
            /\ r.status = 200
            /\ r.id \in Holders(token)
            /\ \A i \in UserIds \ {r.id} : r.users[i] = users[i]
            /\ Verified(r.users, r.id)
            /\ r.users[r.id].emailVerificationToken = NoToken
            /\ r.users[r.id].emailVerificationExpires = NoExpiry
       /\ VerifyResult(token, 1).users = users

TokensInOrder ==
  \A i \in UserIds :
    users[i] # NoUser =>
      IF users[i].isEmailVerified
        THEN /\ users[i].emailVerificationToken = NoToken
             /\ users[i].emailVerificationExpires = NoExpiry
        ELSE /\ users[i].emailVerificationToken # NoToken
             /\ users[i].emailVerificationExpires = users[i].createdAt + TokenHours

VerifyStep ==
  \A i \in UserIds :
    /\ Verified(users, i) => Verified(users', i)
    /\ (Verified(users', i) /\ ~Verified(users, i)) =>
         /\ users[i] # NoUser
         /\ last'.op = "verifyEmail"
         /\ last'.status = 200
         /\ last'.id = i
         /\ last'.token = users[i].emailVerificationToken
         /\ users[i].emailVerificationExpires > clock
         /\ clock < users[i].createdAt + TokenHours
    /\ (last'.op = "verifyEmail" /\ last'.status # 200) => users' = users

Signed(row) == IF row.type = "INCOME" THEN row.amount ELSE -row.amount

\* the balances after adding delta to account a
Adjusted(bal, a, delta) == [bal EXCEPT ![a].balance = @ + delta]

\* the store after the whole of the request process p holds, and nothing else
WholeEffect(p) ==
  LET q == inflight[p]
  IN  IF q.op = "POST"
        THEN /\ accounts' = Adjusted(accounts, q.d.accountId, Signed(q.d))
             /\ transactions'[nextTxnId] # NoRow
             /\ transactions'[nextTxnId].accountId = q.d.accountId
             /\ transactions'[nextTxnId].amount = q.d.amount
             /\ transactions'[nextTxnId].type = q.d.type
             /\ \A t \in TxnIds \ {nextTxnId} : transactions'[t] = transactions[t]
      ELSE IF q.op = "PUT"
        THEN /\ accounts' = Adjusted(Adjusted(accounts, q.existing.accountId,
                                              -Signed(q.existing)),
                                     q.d.accountId, Signed(q.d))
             /\ transactions'[q.id] # NoRow
             /\ transactions'[q.id].accountId = q.d.accountId
             /\ transactions'[q.id].amount = q.d.amount
             /\ transactions'[q.id].type = q.d.type
             /\ \A t \in TxnIds \ {q.id} : transactions'[t] = transactions[t]
      ELSE /\ accounts' = Adjusted(accounts, q.existing.accountId, -Signed(q.existing))
           /\ transactions[q.id] # NoRow
           /\ transactions'[q.id] = NoRow
           /\ \A t \in TxnIds \ {q.id} : transactions'[t] = transactions[t]

AllOrNothing ==
  /\ (accounts' # accounts \/ transactions' # transactions) =>
       \E p \in Procs : inflight[p] # Parked /\ inflight'[p] = Parked /\ WholeEffect(p)
  /\ (last' # last /\ last'.op = "read") =>
       (last'.seen.accounts = accounts /\ last'.seen.transactions = transactions)

\* C27: the row write and the balance adjustments of a transaction request
\* become visible together or not at all: whatever a concurrent reader sees,
\* the store only ever moves by the whole effect of one request.
C27_Atomic == [][AllOrNothing]_vars

\* a reader ran while an update on one account had reversed the old amount
\* inside its unit and not yet applied the new one
C27_Witness ==
  /\ last.op = "read"
  /\ \E p \in Procs :
       /\ inflight[p] # Parked
       /\ inflight[p].op = "PUT"
       /\ inflight[p].pc = "s1"
       /\ inflight[p].existing.accountId = inflight[p].d.accountId
       /\ inflight[p].existing.amount # inflight[p].d.amount
       /\ last.seen.accounts = accounts
       /\ transactions[inflight[p].id] = inflight[p].existing

\* C28: of two concurrent creates of one owner and one category scope whose
\* windows intersect at most one succeeds, however the overlap checks and the
\* inserts interleave: the budgets stored by creates never intersect.
C28_OneWinner ==
  \A i, j \in BudgetIds :
    (/\ i < j
     /\ Present(budgets[i]) /\ Present(budgets[j])
     /\ budgets[i].userId = budgets[j].userId
     /\ budgets[i].categoryId = budgets[j].categoryId)
      => \A day \in Dates :
           ~(/\ budgets[i].startDate <= day /\ day <= budgets[i].endDate
             /\ budgets[j].startDate <= day /\ day <= budgets[j].endDate)

\* C29: an account that has been deactivated holds no transactions: none can
\* be posted to it by a create or an update, so its balance stays as it was.
C29_InactiveUntouched ==
  \A a \in AccountIds :
    ~accounts[a].isActive =>
      \A t \in TxnIds : Present(transactions[t]) => transactions[t].accountId # a

\* account a / category c is referenced by a stored transaction
AccountInUse(a) == \E t \in TxnIds : Present(transactions[t]) /\ transactions[t].accountId = a
CategoryInUse(c) == \E t \in TxnIds : Present(transactions[t]) /\ transactions[t].categoryId = c

DeleteStep ==
  /\ (last' # last /\ last'.op = "accountDelete") =>
       /\ transactions' = transactions
       /\ categories' = categories
       /\ budgets' = budgets
       /\ last'.status # 200 => accounts' = accounts
       /\ (last'.id \in AccountIds /\ AccountInUse(last'.id)) => last'.status # 200
       /\ last'.status = 200 =>
            /\ accounts' = [accounts EXCEPT ![last'.id].isActive = FALSE]
            /\ last'.id \notin AccountList(accounts', last'.userId)
  /\ (last' # last /\ last'.op = "categoryDelete") =>
       /\ transactions' = transactions
       /\ accounts' = accounts
       /\ budgets' = budgets
       /\ last'.status # 200 => categories' = categories
       /\ (last'.id \in CategoryIds /\ CategoryInUse(last'.id)) => last'.status # 200
       /\ last'.status = 200 => categories' = [categories EXCEPT ![last'.id] = NoRow]

\* C30: an account delete or a category delete leaves every transaction in
\* place and referenced rows untouched; a successful account delete only sets
\* isActive to false and takes the account off the account list; a successful
\* category delete removes that category and nothing else.
C30_DeleteScope == [][DeleteStep]_vars


====
